---- MODULE Spec2Model ----
(***************************************************************************)
(* A model of libsystemd-bus' connection object (sd-bus.c): the send path  *)
(* and write queue, reply callbacks and their timeouts, the dispatch       *)
(* pipeline of sd_bus_process(), the filter list, and the object tree.     *)
(*                                                                         *)
(* The fields of struct sd_bus are the variables.  Every function of       *)
(* sd-bus.c is an operator from a "world" record (all variables) to the    *)
(* world it leaves behind plus its return value, so that a function that   *)
(* calls another is the composition of the two operators.  An action is    *)
(* one call of a public function by the application (or one step of the    *)
(* peer or of the clock).  A callback invoked by sd_bus_process() is       *)
(* application code: while it runs (pc says which callback) the            *)
(* application may call any public function, and then returns a value.     *)
(***************************************************************************)
EXTENDS Integers, Sequences, FiniteSets, TLC

(***************************************************************************)
(* Bounds of the model.                                                    *)
(***************************************************************************)
MaxMsgs == 3
   \* message objects the application creates
MaxSends == 4
   \* accepted sd_bus_send() calls in one behaviour
MaxEmits == 1
   \* PropertiesChanged signals sent in one behaviour
MsgSize == 2
   \* BUS_MESSAGE_SIZE() of every outgoing message, in bytes
BUS_WQUEUE_MAX == 2
   \* the write queue's limit (128 in bus-internal.h), scaled down
MaxTime == 3
   \* the clock stops advancing here
MaxInbound == 2
   \* messages read from the transport and queued or dispatched, in one
   \* behaviour
SerialModulus == 1073741824
   \* the serial counter counts modulo this (2^30 here; the counter is an
   \* unsigned integer of the C program, wider than the model's integers)
MaxDispatch == 1
   \* method calls the peer sends in one behaviour
MaxFilters == 3
   \* sd_bus_add_filter() calls in one behaviour
MaxCalls == 2
   \* sd_bus_send_with_reply() calls that allocate a callback, in one behaviour
MaxRegs == 3
   \* registrations present in the object tree at one time

errno == [EPERM |-> 1, ENOENT |-> 2, EIO |-> 5, ENOMEM |-> 12, EBUSY |-> 16,
          EEXIST |-> 17, EINVAL |-> 22, EDOM |-> 33, EPROTOTYPE |-> 91,
          ENOBUFS |-> 105,
          ENOTCONN |-> 107, ETIMEDOUT |-> 110, ECHILD |-> 10, ENOTSUP |-> 95,
          EBADMSG |-> 74, EPIPE |-> 32, EINTR |-> 4, ENXIO |-> 6,
          ECONNREFUSED |-> 111]

VARIABLES
  \* struct sd_bus
  state,                    \* enum bus_state
  is_kernel,                \* kdbus transport: writes are whole messages
  serial,                   \* last serial handed out
  processing,               \* inside sd_bus_process()
  wqueue, windex,           \* pending outgoing messages; bytes of wqueue[0] written
  rqueue,                   \* incoming messages read but not dispatched
  reply_callbacks,          \* hashmap: the reply_callback structs, keyed by serial
  reply_callbacks_prioq,    \* prioq of reply_callback structs with a deadline
  filter_callbacks,         \* list of struct filter_callback, head first
  filter_callbacks_modified,
  iteration_counter,
  hello_serial,             \* serial of the Hello call
  conf,                     \* what the setters and the address parser set:
                            \* address, fds, exec_path, sockaddr, kernel,
                            \* bus_client, is_server, server_id, anonymous_auth,
                            \* hello_flags; unique_name; original_pid
  nodes,                    \* hashmap path -> struct node
  vtable_methods,           \* hashmap (path, interface, member) -> vtable_member
  vtable_properties,
  \* the heap, the transport, the clock
  msgs,                     \* outgoing sd_bus_message objects: sealed, serial
  wire,                     \* bytes the transport accepted, in order
  now,                      \* CLOCK_MONOTONIC
  pid,                      \* getpid()
  \* the thread
  pc,                       \* where the thread is: "idle", in a callback, stuck
  cur,                      \* the dispatch in progress (message, walker)
  \* observations
  events,                   \* what happened to each callback struct
  sendlog,                  \* messages sd_bus_send() accepted, in call order
  nread                     \* messages read and queued or dispatched so far

vars == <<state, is_kernel, serial, processing, wqueue, windex, rqueue,
          reply_callbacks, reply_callbacks_prioq, filter_callbacks,
          filter_callbacks_modified, iteration_counter, hello_serial, nodes,
          vtable_methods, vtable_properties, msgs, wire, now, pc, cur,
          events, sendlog, nread, conf, pid>>

\* All variables as one record, so that the code's functions compose.
World ==
  [state |-> state, is_kernel |-> is_kernel, serial |-> serial,
   processing |-> processing, wqueue |-> wqueue, windex |-> windex,
   rqueue |-> rqueue, reply_callbacks |-> reply_callbacks,
   reply_callbacks_prioq |-> reply_callbacks_prioq,
   filter_callbacks |-> filter_callbacks,
   filter_callbacks_modified |-> filter_callbacks_modified,
   iteration_counter |-> iteration_counter, hello_serial |-> hello_serial,
   nodes |-> nodes,
   vtable_methods |-> vtable_methods, vtable_properties |-> vtable_properties,
   msgs |-> msgs, wire |-> wire, now |-> now,
   pc |-> pc, cur |-> cur, events |-> events, sendlog |-> sendlog,
   nread |-> nread, conf |-> conf, pid |-> pid]

Becomes(w) ==
  /\ state' = w.state /\ is_kernel' = w.is_kernel /\ serial' = w.serial
  /\ processing' = w.processing /\ wqueue' = w.wqueue /\ windex' = w.windex
  /\ rqueue' = w.rqueue /\ reply_callbacks' = w.reply_callbacks
  /\ reply_callbacks_prioq' = w.reply_callbacks_prioq
  /\ filter_callbacks' = w.filter_callbacks
  /\ filter_callbacks_modified' = w.filter_callbacks_modified
  /\ iteration_counter' = w.iteration_counter
  /\ hello_serial' = w.hello_serial /\ nodes' = w.nodes
  /\ vtable_methods' = w.vtable_methods
  /\ vtable_properties' = w.vtable_properties
  /\ msgs' = w.msgs /\ wire' = w.wire /\ now' = w.now
  /\ pc' = w.pc /\ cur' = w.cur /\ events' = w.events
  /\ sendlog' = w.sendlog /\ nread' = w.nread
  /\ conf' = w.conf /\ pid' = w.pid

\* The same for an initial state.
StartsAs(w) ==
  /\ state = w.state /\ is_kernel = w.is_kernel /\ serial = w.serial
  /\ processing = w.processing /\ wqueue = w.wqueue /\ windex = w.windex
  /\ rqueue = w.rqueue /\ reply_callbacks = w.reply_callbacks
  /\ reply_callbacks_prioq = w.reply_callbacks_prioq
  /\ filter_callbacks = w.filter_callbacks
  /\ filter_callbacks_modified = w.filter_callbacks_modified
  /\ iteration_counter = w.iteration_counter
  /\ hello_serial = w.hello_serial /\ nodes = w.nodes
  /\ vtable_methods = w.vtable_methods
  /\ vtable_properties = w.vtable_properties
  /\ msgs = w.msgs /\ wire = w.wire /\ now = w.now
  /\ pc = w.pc /\ cur = w.cur /\ events = w.events
  /\ sendlog = w.sendlog /\ nread = w.nread
  /\ conf = w.conf /\ pid = w.pid

\* A function's result: the world it leaves and the value it returns.
Res(w, r) == [w |-> w, r |-> r]

NoMsg == [type |-> "NONE", reply_serial |-> 0, error |-> "", body |-> <<>>]
NoCallback == [id |-> 0, serial |-> 0, timeout |-> 0, callback |-> ""]
\* cur: where the thread is. m, c, l: the message being dispatched and the
\* reply_callback or filter_callback (by id) whose callback runs; op: the call
\* a stuck thread never returns from; inner: the blocking call ("flush",
\* "block") the thread is in, with the locals serial, timeout and room of
\* sd_bus_send_with_reply_and_block(); ret: sd_bus_process() was asked for
\* the message (its argument ret is not NULL); obj: where process_object()
\* is, the prefix p whose node it visits, the node callback k that runs and
\* its local found_object.
NoCur == [m |-> NoMsg, c |-> NoCallback, l |-> 0, op |-> "", inner |-> "",
          serial |-> 0, timeout |-> 0, room |-> FALSE, ret |-> FALSE,
          obj |-> [p |-> <<>>, k |-> 0, found |-> FALSE]]
\* events: for every reply_callback struct ever allocated (its identity is its
\* index in calls) the serial it was keyed with and what happened to it, in
\* order: "registered" (sd_bus_send_with_reply() returned success), "rejected"
\* (freed before it was inserted), "failed" (rolled back after it was inserted),
\* "cancel", "timeout", "reply" (its callback was called); for every
\* filter_callback struct ever allocated the iterations its callback was
\* called in; objects: the handlers object dispatch called, in order, each
\* with the iteration, the message's path, the prefix whose node holds the
\* handler and the handler.
NoEvents == [calls |-> <<>>, filters |-> <<>>, objects |-> <<>>]

\* The NULL pointer as an address.
NullAddress == <<"NULL">>

\* The configuration of a new connection: new0() zeroes it, then
\* input_fd = output_fd = -1, hello_flags |= KDBUS_HELLO_ACCEPT_FD,
\* original_pid = getpid() (the model's first process has pid 1). address is
\* the sequence of its entries; address_index counts the entries parsed;
\* unique_name is <<>> for NULL.
NewConf ==
  [address |-> NullAddress, address_index |-> 0, input_fd |-> 0 - 1,
   output_fd |-> 0 - 1, exec_path |-> FALSE, sockaddr |-> FALSE,
   kernel |-> FALSE, bus_client |-> FALSE, is_server |-> FALSE,
   server_id |-> 0, anonymous_auth |-> FALSE, hello_flags |-> {"ACCEPT_FD"},
   unique_name |-> <<>>, original_pid |-> 1, last_connect_error |-> 0]

\* The state sd_bus_new() leaves (lines 156-184), before any configuration.
NewBus ==
  [state |-> "UNSET", is_kernel |-> FALSE, serial |-> 0, processing |-> FALSE,
   wqueue |-> <<>>, windex |-> 0, rqueue |-> <<>>, reply_callbacks |-> {},
   reply_callbacks_prioq |-> {}, filter_callbacks |-> <<>>,
   filter_callbacks_modified |-> FALSE, iteration_counter |-> 0,
   hello_serial |-> 0, nodes |-> <<>>, vtable_methods |-> {},
   vtable_properties |-> {},
   msgs |-> [i \in 1..MaxMsgs |->
              [type |-> "METHOD_CALL", sealed |-> FALSE, serial |-> 0,
               no_reply_expected |-> FALSE, dont_send |-> FALSE]],
   wire |-> <<>>, now |-> 0, pc |-> "idle", cur |-> NoCur,
   events |-> NoEvents, sendlog |-> <<>>, nread |-> 0,
   conf |-> NewConf, pid |-> 1]

\* bus_pid_changed(): the connection was allocated by another process.
bus_pid_changed(w) == w.conf.original_pid # w.pid

\* bus_close_fds()
bus_close_fds(w) ==
  [w EXCEPT !.conf.input_fd = 0 - 1, !.conf.output_fd = 0 - 1]

(***************************************************************************)
(* The object tree.  A path is the string itself, a sequence of            *)
(* characters; a node is named by its path, the key of bus->nodes, and     *)
(* NULL is the empty string.                                               *)
(***************************************************************************)
NULL == <<>>
ROOT == <<"/">>
Paths == {ROOT, <<"/", "a">>, <<"/", "a", "/", "b">>}
BadPath == <<"a">>
   \* a string object_path_is_valid() rejects
Interfaces == {"I", "J"}
Handlers == {"f", "g"}
   \* the (callback, userdata) pairs the application registers

\* The sd_bus_vtable arrays the application passes. `ok` is the outcome of the
\* entry's checks (member_name_is_valid, signature_is_valid, handler, flags).
Vtables ==
  [vtA |-> << [type |-> "START"],
              [type |-> "METHOD", member |-> "M", ok |-> TRUE,
               signature |-> ""],
              [type |-> "PROPERTY", member |-> "P", ok |-> TRUE,
               flags |-> {"EMITS_CHANGE"}],
              [type |-> "PROPERTY", member |-> "R", ok |-> TRUE,
               flags |-> {}],
              [type |-> "END"] >>,
   vtBad |-> << [type |-> "START"],
                [type |-> "METHOD", member |-> "M", ok |-> TRUE,
                 signature |-> ""],
                [type |-> "SIGNAL", member |-> "S", ok |-> FALSE],
                [type |-> "END"] >>]

object_path_is_valid(path) == path \in Paths

MAX(a, b) == IF a > b THEN a ELSE b

\* strrchr(path, '/'), as the offset of the last '/' from the start of path.
strrchr_slash(path) ==
  (CHOOSE i \in 1..Len(path) :
     path[i] = "/" /\ \A j \in (i+1)..Len(path) : path[j] # "/") - 1

\* strndupa(s, n): the first n characters of s, or all of s when it is shorter.
strndupa(s, n) == SubSeq(s, 1, IF n < Len(s) THEN n ELSE Len(s))

\* LIST_PREPEND and LIST_REMOVE (the first occurrence: the element itself).
LIST_PREPEND(list, x) == <<x>> \o list
LIST_REMOVE(list, k) == SubSeq(list, 1, k - 1) \o SubSeq(list, k + 1, Len(list))

\* The index of the first element of list that satisfies P, 0 when none does.
First(list, P(_)) ==
  IF \E k \in 1..Len(list) : P(list[k])
  THEN CHOOSE k \in 1..Len(list) : P(list[k]) /\ \A j \in 1..(k-1) : ~P(list[j])
  ELSE 0

hashmap_remove(map, key) == [k \in DOMAIN map \ {key} |-> map[k]]
hashmap_put(map, key, value) ==
  [k \in DOMAIN map \cup {key} |-> IF k = key THEN value ELSE map[k]]

\* The parent path bus_node_allocate() computes: strndupa(path, MAX(1, path - e))
\* with e = strrchr(path, '/'): the pointer difference path - e is zero or
\* negative.
ParentOf(path) == strndupa(path, MAX(1, 0 - strrchr_slash(path)))

\* bus_node_allocate(): the node of path, created with its parent when absent.
RECURSIVE bus_node_allocate(_, _)
bus_node_allocate(ns, path) ==
  IF path \in DOMAIN ns THEN ns
  ELSE LET parent == IF path = ROOT THEN NULL ELSE ParentOf(path)
           ns1 == IF parent = NULL THEN ns ELSE bus_node_allocate(ns, parent)
           n == [parent |-> parent, child |-> <<>>, callbacks |-> <<>>,
                 vtables |-> <<>>, enumerators |-> <<>>,
                 object_manager |-> FALSE]
           ns2 == hashmap_put(ns1, path, n)
       IN  IF parent = NULL THEN ns2
           ELSE [ns2 EXCEPT ![parent].child = LIST_PREPEND(@, path)]

\* bus_node_gc(): drop node n when nothing is registered on it and it has no
\* child, then its parent likewise.
RECURSIVE bus_node_gc(_, _)
bus_node_gc(ns, n) ==
  IF n = NULL THEN ns
  ELSE IF \/ ns[n].child # <<>> \/ ns[n].callbacks # <<>>
          \/ ns[n].vtables # <<>> \/ ns[n].enumerators # <<>>
          \/ ns[n].object_manager
       THEN ns
       ELSE LET parent == ns[n].parent
                ns1 == hashmap_remove(ns, n)
                ns2 == IF parent = NULL THEN ns1
                       ELSE [ns1 EXCEPT ![parent].child =
                               LIST_REMOVE(@, First(@, LAMBDA c : c = n))]
            IN  bus_node_gc(ns2, parent)

\* bus_add_object(): sd_bus_add_object (fallback = FALSE), sd_bus_add_fallback.
bus_add_object(w, fallback, path, callback) ==
  IF ~object_path_is_valid(path) THEN Res(w, 0 - errno.EINVAL)
  ELSE IF bus_pid_changed(w) THEN Res(w, 0 - errno.ECHILD)
  ELSE LET ns == bus_node_allocate(w.nodes, path)
           c == [callback |-> callback, is_fallback |-> fallback]
       IN  Res([w EXCEPT !.nodes =
                   [ns EXCEPT ![path].callbacks = LIST_PREPEND(@, c)]], 0)

\* bus_remove_object(): sd_bus_remove_object, sd_bus_remove_fallback.
bus_remove_object(w, fallback, path, callback) ==
  IF ~object_path_is_valid(path) THEN Res(w, 0 - errno.EINVAL)
  ELSE IF bus_pid_changed(w) THEN Res(w, 0 - errno.ECHILD)
  ELSE IF path \notin DOMAIN w.nodes THEN Res(w, 0)
  ELSE LET k == First(w.nodes[path].callbacks,
                      LAMBDA c : c.callback = callback /\ c.is_fallback = fallback)
       IN  IF k = 0 THEN Res(w, 0)
           ELSE Res([w EXCEPT !.nodes =
                       bus_node_gc([@ EXCEPT ![path].callbacks = LIST_REMOVE(@, k)],
                                   path)], 1)

\* sd_bus_add_node_enumerator()
sd_bus_add_node_enumerator(w, path, callback) ==
  IF ~object_path_is_valid(path) THEN Res(w, 0 - errno.EINVAL)
  ELSE IF bus_pid_changed(w) THEN Res(w, 0 - errno.ECHILD)
  ELSE LET ns == bus_node_allocate(w.nodes, path)
       IN  Res([w EXCEPT !.nodes =
                   [ns EXCEPT ![path].enumerators = LIST_PREPEND(@, callback)]], 0)

\* sd_bus_remove_node_enumerator()
sd_bus_remove_node_enumerator(w, path, callback) ==
  IF ~object_path_is_valid(path) THEN Res(w, 0 - errno.EINVAL)
  ELSE IF bus_pid_changed(w) THEN Res(w, 0 - errno.ECHILD)
  ELSE IF path \notin DOMAIN w.nodes THEN Res(w, 0)
  ELSE LET k == First(w.nodes[path].enumerators, LAMBDA c : c = callback)
       IN  IF k = 0 THEN Res(w, 0)
           ELSE Res([w EXCEPT !.nodes =
                       bus_node_gc([@ EXCEPT ![path].enumerators = LIST_REMOVE(@, k)],
                                   path)], 1)

\* sd_bus_add_object_manager()
sd_bus_add_object_manager(w, path) ==
  IF ~object_path_is_valid(path) THEN Res(w, 0 - errno.EINVAL)
  ELSE IF bus_pid_changed(w) THEN Res(w, 0 - errno.ECHILD)
  ELSE LET ns == bus_node_allocate(w.nodes, path)
       IN  Res([w EXCEPT !.nodes = [ns EXCEPT ![path].object_manager = TRUE]], 0)

\* sd_bus_remove_object_manager()
sd_bus_remove_object_manager(w, path) ==
  IF ~object_path_is_valid(path) THEN Res(w, 0 - errno.EINVAL)
  ELSE IF bus_pid_changed(w) THEN Res(w, 0 - errno.ECHILD)
  ELSE IF path \notin DOMAIN w.nodes THEN Res(w, 0)
  ELSE IF ~w.nodes[path].object_manager THEN Res(w, 0)
  ELSE Res([w EXCEPT !.nodes =
              bus_node_gc([@ EXCEPT ![path].object_manager = FALSE], path)], 1)

\* free_node_vtable(): the loop `for (v = w->vtable; v->type != END; w++)`
\* advances w, never v. v stays on the array's first entry, START, so the
\* condition stays true and no case of the switch applies: on an entry with a
\* vtable the loop removes nothing from the indexes and never ends.
free_node_vtable(w, c) ==
  IF Vtables[c.vtable][1].type # "END"
  THEN [w EXCEPT !.pc = "stuck"]
  ELSE w

\* The loop of add_object_vtable_internal() over the entries from index k on:
\* each method and property is checked and put into its index. The result is
\* the indexes and r (0, or the error of the entry that failed).
RECURSIVE vtable_insert(_, _, _, _, _, _)
vtable_insert(methods, properties, path, c, vt, k) ==
  LET v == vt[k]
      m == [path |-> path, interface |-> c.interface, member |-> v.member]
      taken(index) == \E x \in index : x.key = m
      entry == [key |-> m, parent |-> c]
  IN  CASE v.type = "END" ->
             [methods |-> methods, properties |-> properties, r |-> 0]
        [] v.type = "METHOD" ->
             IF ~v.ok
             THEN [methods |-> methods, properties |-> properties,
                   r |-> 0 - errno.EINVAL]
             ELSE IF taken(methods)
             THEN [methods |-> methods, properties |-> properties,
                   r |-> 0 - errno.EEXIST]
             ELSE vtable_insert(methods \cup {entry}, properties, path, c, vt, k + 1)
        [] v.type \in {"PROPERTY", "WRITABLE_PROPERTY"} ->
             IF ~v.ok
             THEN [methods |-> methods, properties |-> properties,
                   r |-> 0 - errno.EINVAL]
             ELSE IF taken(properties)
             THEN [methods |-> methods, properties |-> properties,
                   r |-> 0 - errno.EEXIST]
             ELSE vtable_insert(methods, properties \cup {entry}, path, c, vt, k + 1)
        [] v.type = "SIGNAL" ->
             IF ~v.ok
             THEN [methods |-> methods, properties |-> properties,
                   r |-> 0 - errno.EINVAL]
             ELSE vtable_insert(methods, properties, path, c, vt, k + 1)
        [] OTHER ->
             [methods |-> methods, properties |-> properties,
              r |-> 0 - errno.EINVAL]

\* add_object_vtable_internal(): sd_bus_add_object_vtable (fallback = FALSE),
\* sd_bus_add_fallback_vtable. The fail label returns 0, not r.
add_object_vtable_internal(w, path, interface, vtable, fallback) ==
  IF ~object_path_is_valid(path) THEN Res(w, 0 - errno.EINVAL)
  ELSE IF Vtables[vtable][1].type # "START" THEN Res(w, 0 - errno.EINVAL)
  ELSE IF bus_pid_changed(w) THEN Res(w, 0 - errno.ECHILD)
  ELSE
    LET ns == bus_node_allocate(w.nodes, path)
        clash == First(ns[path].vtables,
                       LAMBDA i : i.interface = interface \/ i.is_fallback # fallback)
        c == [interface |-> interface, is_fallback |-> fallback, vtable |-> vtable]
        ins == vtable_insert(w.vtable_methods, w.vtable_properties, path, c,
                             Vtables[vtable], 2)
        w1 == [w EXCEPT !.nodes = ns, !.vtable_methods = ins.methods,
                        !.vtable_properties = ins.properties]
    IN  IF clash # 0
        THEN \* r = -EEXIST or -EPROTOTYPE; fail: c is NULL
             Res([w EXCEPT !.nodes = bus_node_gc(ns, path)], 0)
        ELSE IF ins.r < 0
        THEN \* fail: free_node_vtable(bus, c); bus_node_gc(bus, n); return 0
             LET w2 == free_node_vtable(w1, c)
             IN  IF w2.pc = "stuck" THEN Res(w2, 0)
                 ELSE Res([w2 EXCEPT !.nodes = bus_node_gc(@, path)], 0)
        ELSE Res([w1 EXCEPT !.nodes[path].vtables = LIST_PREPEND(@, c)], 0)

\* remove_object_vtable_internal(): sd_bus_remove_object_vtable,
\* sd_bus_remove_fallback_vtable. It does not call bus_node_gc().
remove_object_vtable_internal(w, path, interface, fallback) ==
  IF ~object_path_is_valid(path) THEN Res(w, 0 - errno.EINVAL)
  ELSE IF bus_pid_changed(w) THEN Res(w, 0 - errno.ECHILD)
  ELSE IF path \notin DOMAIN w.nodes THEN Res(w, 0)
  ELSE LET k == First(w.nodes[path].vtables,
                      LAMBDA c : c.interface = interface /\ c.is_fallback = fallback)
       IN  IF k = 0 THEN Res(w, 0)
           ELSE Res(free_node_vtable(
                      [w EXCEPT !.nodes[path].vtables = LIST_REMOVE(@, k)],
                      w.nodes[path].vtables[k]), 1)

\* Registrations present in the tree: callbacks, vtables, enumerators and
\* object-manager flags.
RegCount(ns) ==
  LET RECURSIVE Sum(_)
      Sum(S) == IF S = {} THEN 0
                ELSE LET p == CHOOSE p \in S : TRUE
                     IN  Len(ns[p].callbacks) + Len(ns[p].vtables)
                         + Len(ns[p].enumerators)
                         + (IF ns[p].object_manager THEN 1 ELSE 0)
                         + Sum(S \ {p})
  IN  Sum(DOMAIN ns)

(***************************************************************************)
(* Actions of the object tree: one call of a public function each. None    *)
(* of them looks at the connection state. A call that does not return      *)
(* leaves pc at "stuck" and its name in cur.op.                            *)
(***************************************************************************)
Callable == pc \notin {"stuck", "ub"} /\ cur.inner = ""

TreeCall(op, res) ==
  Becomes(IF res.w.pc = "stuck" THEN [res.w EXCEPT !.cur.op = op] ELSE res.w)

TreeRoom(path) ==
  path \in Paths => RegCount(nodes) < MaxRegs

AddObject ==
  \E path \in Paths \cup {BadPath}, h \in Handlers, fb \in BOOLEAN :
    /\ Callable /\ TreeRoom(path)
    /\ TreeCall(IF fb THEN "add_fallback" ELSE "add_object",
                bus_add_object(World, fb, path, h))

RemoveObject ==
  \E path \in Paths \cup {BadPath}, h \in Handlers, fb \in BOOLEAN :
    /\ Callable
    /\ TreeCall(IF fb THEN "remove_fallback" ELSE "remove_object",
                bus_remove_object(World, fb, path, h))

AddObjectVtable ==
  \E path \in Paths \cup {BadPath}, i \in Interfaces, vt \in DOMAIN Vtables,
     fb \in BOOLEAN :
    /\ Callable /\ TreeRoom(path)
    /\ TreeCall(IF fb THEN "add_fallback_vtable" ELSE "add_object_vtable",
                add_object_vtable_internal(World, path, i, vt, fb))

RemoveObjectVtable ==
  \E path \in Paths \cup {BadPath}, i \in Interfaces, fb \in BOOLEAN :
    /\ Callable
    /\ TreeCall(IF fb THEN "remove_fallback_vtable" ELSE "remove_object_vtable",
                remove_object_vtable_internal(World, path, i, fb))

AddNodeEnumerator ==
  \E path \in Paths \cup {BadPath}, h \in Handlers :
    /\ Callable /\ TreeRoom(path)
    /\ TreeCall("add_node_enumerator", sd_bus_add_node_enumerator(World, path, h))

RemoveNodeEnumerator ==
  \E path \in Paths \cup {BadPath}, h \in Handlers :
    /\ Callable
    /\ TreeCall("remove_node_enumerator",
                sd_bus_remove_node_enumerator(World, path, h))

AddObjectManager ==
  \E path \in Paths \cup {BadPath} :
    /\ Callable /\ TreeRoom(path)
    /\ TreeCall("add_object_manager", sd_bus_add_object_manager(World, path))

RemoveObjectManager ==
  \E path \in Paths \cup {BadPath} :
    /\ Callable
    /\ TreeCall("remove_object_manager", sd_bus_remove_object_manager(World, path))

InitTree ==
  StartsAs(NewBus)

NextTree ==
  \/ AddObject \/ RemoveObject
  \/ AddObjectVtable \/ RemoveObjectVtable
  \/ AddNodeEnumerator \/ RemoveNodeEnumerator
  \/ AddObjectManager \/ RemoveObjectManager

SpecTree == InitTree /\ [][NextTree]_vars

(***************************************************************************)
(* Configuration.  An address is the sequence of its entries, each named   *)
(* by what the parser makes of it: "unix" (a socket address), "unixexec"   *)
(* (a program to run), "kernel" (a kdbus device), "skip" (an unknown       *)
(* transport, skipped) and "bad" (a known transport that does not parse).  *)
(* The empty sequence is the empty string.                                 *)
(***************************************************************************)
\* SD_ID128_NULL
SD_ID128_NULL == 0

\* sd_bus_set_address(bus, address); oom: strdup() fails.
sd_bus_set_address(w, address, oom) ==
  IF w.state # "UNSET" THEN Res(w, 0 - errno.EPERM)
  ELSE IF address = NullAddress THEN Res(w, 0 - errno.EINVAL)
  ELSE IF bus_pid_changed(w) THEN Res(w, 0 - errno.ECHILD)
  ELSE IF oom THEN Res(w, 0 - errno.ENOMEM)
  ELSE Res([w EXCEPT !.conf.address = address], 0)

\* sd_bus_set_fd(bus, input_fd, output_fd)
sd_bus_set_fd(w, input_fd, output_fd) ==
  IF w.state # "UNSET" THEN Res(w, 0 - errno.EPERM)
  ELSE IF input_fd < 0 THEN Res(w, 0 - errno.EINVAL)
  ELSE IF output_fd < 0 THEN Res(w, 0 - errno.EINVAL)
  ELSE IF bus_pid_changed(w) THEN Res(w, 0 - errno.ECHILD)
  ELSE Res([w EXCEPT !.conf.input_fd = input_fd,
                     !.conf.output_fd = output_fd], 0)

\* sd_bus_set_exec(bus, path, argv): path says that path is not NULL, argv
\* that argv is not empty; oom: strdup() or strv_copy() fails.
sd_bus_set_exec(w, path, argv, oom) ==
  IF w.state # "UNSET" THEN Res(w, 0 - errno.EPERM)
  ELSE IF ~path THEN Res(w, 0 - errno.EINVAL)
  ELSE IF ~argv THEN Res(w, 0 - errno.EINVAL)
  ELSE IF bus_pid_changed(w) THEN Res(w, 0 - errno.ECHILD)
  ELSE IF oom THEN Res(w, 0 - errno.ENOMEM)
  ELSE Res([w EXCEPT !.conf.exec_path = TRUE], 0)

\* sd_bus_set_bus_client(bus, b)
sd_bus_set_bus_client(w, b) ==
  IF w.state # "UNSET" THEN Res(w, 0 - errno.EPERM)
  ELSE IF bus_pid_changed(w) THEN Res(w, 0 - errno.ECHILD)
  ELSE Res([w EXCEPT !.conf.bus_client = b], 0)

\* The KDBUS_HELLO_* flags the sd_bus_negotiate_*() functions set.
HelloFlags ==
  {"ACCEPT_FD", "ATTACH_COMM", "ATTACH_EXE", "ATTACH_CMDLINE", "ATTACH_CGROUP",
   "ATTACH_CAPS", "ATTACH_SECLABEL", "ATTACH_AUDIT"}

\* SET_FLAG(v, flag, b)
SET_FLAG(v, flag, b) == IF b THEN v \cup {flag} ELSE v \ {flag}

\* sd_bus_negotiate_fds(bus, b) and the seven sd_bus_negotiate_attach_*(bus,
\* b), which differ in the flag only.
sd_bus_negotiate(w, flag, b) ==
  IF w.state # "UNSET" THEN Res(w, 0 - errno.EPERM)
  ELSE IF bus_pid_changed(w) THEN Res(w, 0 - errno.ECHILD)
  ELSE Res([w EXCEPT !.conf.hello_flags = SET_FLAG(@, flag, b)], 0)

\* sd_bus_set_server(bus, b, server_id): the arguments are tested first.
sd_bus_set_server(w, b, server_id) ==
  IF ~b /\ server_id # SD_ID128_NULL THEN Res(w, 0 - errno.EINVAL)
  ELSE IF w.state # "UNSET" THEN Res(w, 0 - errno.EPERM)
  ELSE IF bus_pid_changed(w) THEN Res(w, 0 - errno.ECHILD)
  ELSE Res([w EXCEPT !.conf.is_server = b, !.conf.server_id = server_id], 0)

\* sd_bus_set_anonymous() without its test of the state.
sd_bus_set_anonymous_any_state(w, b) ==
  IF bus_pid_changed(w) THEN Res(w, 0 - errno.ECHILD)
  ELSE Res([w EXCEPT !.conf.anonymous_auth = b], 0)

\* sd_bus_set_anonymous(bus, b)
sd_bus_set_anonymous(w, b) ==
  IF w.state # "UNSET" THEN Res(w, 0 - errno.EPERM)
  ELSE IF bus_pid_changed(w) THEN Res(w, 0 - errno.ECHILD)
  ELSE Res([w EXCEPT !.conf.anonymous_auth = b], 0)

(***************************************************************************)
(* The connection: sealing, the write queue, sending.                      *)
(***************************************************************************)
DefaultTimeout == 2
   \* BUS_DEFAULT_TIMEOUT (25 s in bus-internal.h), scaled down
Infinite == 0 - 1
   \* (uint64_t) -1

\* What the environment does to one call is a record [room, then, oom]: the
\* transport accepts `room` more bytes (kdbus: messages) and answers the write
\* after that with EAGAIN or with an error; the allocation named by `oom`, if
\* the call makes it, fails.

BUS_IS_OPEN(s) == s \notin {"UNSET", "CLOSED"}
BUS_MESSAGE_SIZE(m) == MsgSize

\* sd_bus_close()
sd_bus_close(w) ==
  IF w.state = "CLOSED" THEN w
  ELSE IF bus_pid_changed(w) THEN w
  ELSE IF ~w.is_kernel THEN bus_close_fds([w EXCEPT !.state = "CLOSED"])
  ELSE [w EXCEPT !.state = "CLOSED"]

\* bus_seal_message() handing out the counter's value without advancing it.
bus_seal_message_stale(w, m) ==
  IF w.msgs[m].sealed THEN Res(w, 0)
  ELSE Res([w EXCEPT !.msgs[m].sealed = TRUE, !.msgs[m].serial = w.serial], 0)

\* bus_seal_message(): an unsealed message gets serial ++b->serial, in
\* unsigned arithmetic. (The messages of the model are created for this
\* connection, so their header version is the connection's.)
bus_seal_message(w, m) ==
  IF w.msgs[m].sealed THEN Res(w, 0)
  ELSE Res([w EXCEPT !.serial = (@ + 1) % SerialModulus,
                     !.msgs[m].sealed = TRUE,
                     !.msgs[m].serial = (w.serial + 1) % SerialModulus], 0)

\* The bytes idx+1 .. idx+n of message m, as they appear on the wire.
WireBytes(w, m, idx, n) ==
  [k \in 1..n |-> [m |-> m, serial |-> w.msgs[m].serial, byte |-> idx + k]]

\* bus_socket_write_message(bus, m, &idx): writes what the socket accepts of
\* the rest of m and advances idx; 1 if it wrote, 0 if the socket would block
\* (or nothing is left), < 0 on error.
bus_socket_write_message(w, m, idx, tx) ==
  LET left == BUS_MESSAGE_SIZE(m) - idx
      n == IF tx.room < left THEN tx.room ELSE left
  IN  IF left <= 0 THEN [w |-> w, r |-> 0, idx |-> idx, tx |-> tx]
      ELSE IF n = 0
      THEN [w |-> w, r |-> IF tx.then = "err" THEN 0 - errno.EPIPE ELSE 0,
            idx |-> idx, tx |-> tx]
      ELSE [w |-> [w EXCEPT !.wire = @ \o WireBytes(w, m, idx, n)], r |-> 1,
            idx |-> idx + n, tx |-> [tx EXCEPT !.room = @ - n]]

\* bus_kernel_write_message(bus, m): the whole message or nothing.
bus_kernel_write_message(w, m, tx) ==
  IF tx.room = 0
  THEN [w |-> w, r |-> IF tx.then = "err" THEN 0 - errno.EPIPE ELSE 0, tx |-> tx]
  ELSE [w |-> [w EXCEPT !.wire = @ \o WireBytes(w, m, 0, BUS_MESSAGE_SIZE(m))],
        r |-> 1, tx |-> [tx EXCEPT !.room = @ - 1]]

\* dispatch_wqueue(): write the queue's head until the transport would block,
\* dropping every message that was written completely.
RECURSIVE dispatch_wqueue_loop(_, _, _)
dispatch_wqueue_loop(w, tx, ret_) ==
  IF Len(w.wqueue) = 0 THEN Res(w, ret_)
  ELSE LET wr == IF w.is_kernel
                 THEN bus_kernel_write_message(w, w.wqueue[1], tx)
                 ELSE bus_socket_write_message(w, w.wqueue[1], w.windex, tx)
           w1 == IF w.is_kernel THEN wr.w ELSE [wr.w EXCEPT !.windex = wr.idx]
       IN  IF wr.r < 0 THEN Res(sd_bus_close(w1), wr.r)
           ELSE IF wr.r = 0 THEN Res(w1, ret_)
           ELSE IF w1.is_kernel \/ w1.windex >= BUS_MESSAGE_SIZE(w1.wqueue[1])
           THEN dispatch_wqueue_loop(
                  [w1 EXCEPT !.wqueue = Tail(@), !.windex = 0], wr.tx, 1)
           ELSE dispatch_wqueue_loop(w1, wr.tx, ret_)

\* dispatch_wqueue() forgetting how much of the head it has written.
dispatch_wqueue_restart(w, tx) ==
  dispatch_wqueue_loop([w EXCEPT !.windex = 0], tx, 0)

\* dispatch_wqueue() leaving windex at the size of the message it wrote last
\* when that message empties the queue.
dispatch_wqueue_keeps_index(w, tx) ==
  LET res == dispatch_wqueue_loop(w, tx, 0)
  IN  IF res.r = 1 /\ Len(res.w.wqueue) = 0 /\ ~res.w.is_kernel
      THEN Res([res.w EXCEPT !.windex = MsgSize], res.r)
      ELSE res

dispatch_wqueue(w, tx) == dispatch_wqueue_loop(w, tx, 0)

\* sd_bus_send() handing a failure of its direct write to the caller without
\* closing the connection.
sd_bus_send_stays_open(w, m, want_serial, tx) ==
  IF ~BUS_IS_OPEN(w.state) THEN Res(w, 0 - errno.ENOTCONN)
  ELSE IF bus_pid_changed(w) THEN Res(w, 0 - errno.ECHILD)
  ELSE
    LET w0 == IF ~want_serial /\ ~w.msgs[m].sealed
              THEN [w EXCEPT !.msgs[m].no_reply_expected = TRUE]
              ELSE w
        w1 == bus_seal_message(w0, m).w
        accepted(x) ==
          Res([x EXCEPT !.sendlog =
                 Append(@, [m |-> m, fresh |-> ~w.msgs[m].sealed])], 0)
    IN  IF w1.msgs[m].dont_send /\ ~want_serial THEN Res(w1, 0)
        ELSE IF w1.state \in {"RUNNING", "HELLO"} /\ Len(w1.wqueue) <= 0
        THEN LET wr == IF w1.is_kernel
                       THEN bus_kernel_write_message(w1, m, tx)
                       ELSE bus_socket_write_message(w1, m, 0, tx)
             IN  IF wr.r < 0 THEN Res(wr.w, wr.r)
                 ELSE IF ~w1.is_kernel /\ wr.idx < BUS_MESSAGE_SIZE(m)
                 THEN accepted([wr.w EXCEPT !.wqueue = <<m>>, !.windex = wr.idx])
                 ELSE accepted(wr.w)
        ELSE IF Len(w1.wqueue) >= BUS_WQUEUE_MAX
        THEN Res(w1, 0 - errno.ENOBUFS)
        ELSE IF tx.oom = "realloc" THEN Res(w1, 0 - errno.ENOMEM)
        ELSE accepted([w1 EXCEPT !.wqueue = Append(@, m)])

\* sd_bus_send() appending to a write queue that is full.
sd_bus_send_one_more(w, m, want_serial, tx) ==
  IF ~BUS_IS_OPEN(w.state) THEN Res(w, 0 - errno.ENOTCONN)
  ELSE IF bus_pid_changed(w) THEN Res(w, 0 - errno.ECHILD)
  ELSE
    LET w0 == IF ~want_serial /\ ~w.msgs[m].sealed
              THEN [w EXCEPT !.msgs[m].no_reply_expected = TRUE]
              ELSE w
        w1 == bus_seal_message(w0, m).w
        accepted(x) ==
          Res([x EXCEPT !.sendlog =
                 Append(@, [m |-> m, fresh |-> ~w.msgs[m].sealed])], 0)
    IN  IF w1.msgs[m].dont_send /\ ~want_serial THEN Res(w1, 0)
        ELSE IF w1.state \in {"RUNNING", "HELLO"} /\ Len(w1.wqueue) <= 0
        THEN LET wr == IF w1.is_kernel
                       THEN bus_kernel_write_message(w1, m, tx)
                       ELSE bus_socket_write_message(w1, m, 0, tx)
             IN  IF wr.r < 0 THEN Res(sd_bus_close(wr.w), wr.r)
                 ELSE IF ~w1.is_kernel /\ wr.idx < BUS_MESSAGE_SIZE(m)
                 THEN accepted([wr.w EXCEPT !.wqueue = <<m>>, !.windex = wr.idx])
                 ELSE accepted(wr.w)
        ELSE IF Len(w1.wqueue) > BUS_WQUEUE_MAX
        THEN Res(w1, 0 - errno.ENOBUFS)
        ELSE IF tx.oom = "realloc" THEN Res(w1, 0 - errno.ENOMEM)
        ELSE accepted([w1 EXCEPT !.wqueue = Append(@, m)])

\* sd_bus_send(bus, m, serial): want_serial says that serial is not NULL. (The
\* messages of the model carry no file descriptors, so n_fds = 0.) A reply
\* to a call that expected none (dont_send) is sealed and dropped.
sd_bus_send(w, m, want_serial, tx) ==
  IF ~BUS_IS_OPEN(w.state) THEN Res(w, 0 - errno.ENOTCONN)
  ELSE IF bus_pid_changed(w) THEN Res(w, 0 - errno.ECHILD)
  ELSE
    LET w0 == IF ~want_serial /\ ~w.msgs[m].sealed
              THEN [w EXCEPT !.msgs[m].no_reply_expected = TRUE]
              ELSE w
        w1 == bus_seal_message(w0, m).w
        accepted(x) ==
          Res([x EXCEPT !.sendlog =
                 Append(@, [m |-> m, fresh |-> ~w.msgs[m].sealed])], 0)
    IN  IF w1.msgs[m].dont_send /\ ~want_serial THEN Res(w1, 0)
        ELSE IF w1.state \in {"RUNNING", "HELLO"} /\ Len(w1.wqueue) <= 0
        THEN LET wr == IF w1.is_kernel
                       THEN bus_kernel_write_message(w1, m, tx)
                       ELSE bus_socket_write_message(w1, m, 0, tx)
             IN  IF wr.r < 0 THEN Res(sd_bus_close(wr.w), wr.r)
                 ELSE IF ~w1.is_kernel /\ wr.idx < BUS_MESSAGE_SIZE(m)
                 THEN accepted([wr.w EXCEPT !.wqueue = <<m>>, !.windex = wr.idx])
                 ELSE accepted(wr.w)
        ELSE IF Len(w1.wqueue) >= BUS_WQUEUE_MAX
        THEN Res(w1, 0 - errno.ENOBUFS)
        ELSE IF tx.oom = "realloc" THEN Res(w1, 0 - errno.ENOMEM)
        ELSE accepted([w1 EXCEPT !.wqueue = Append(@, m)])

(***************************************************************************)
(* Reply callbacks and their timeouts.                                     *)
(***************************************************************************)
\* calc_elapse()
calc_elapse(w, usec) ==
  IF usec = Infinite THEN 0
  ELSE w.now + (IF usec = 0 THEN DefaultTimeout ELSE usec)

\* timeout_compare(): entries without a deadline come last.
timeout_compare(x, y) ==
  IF x.timeout # 0 /\ y.timeout = 0 THEN 0 - 1
  ELSE IF x.timeout = 0 /\ y.timeout # 0 THEN 1
  ELSE IF x.timeout < y.timeout THEN 0 - 1
  ELSE IF x.timeout > y.timeout THEN 1
  ELSE 0

\* prioq_peek(): a least element; which one among equal ones is the heap's
\* choice.
prioq_peek(q) == {c \in q : \A d \in q : timeout_compare(c, d) <= 0}

\* hashmap_get() on the reply table, keyed by serial: the entries found.
reply_callbacks_get(w, key) == {c \in w.reply_callbacks : c.serial = key}

\* The reply_callback struct c meets its fate `kind`.
Fate(w, c, kind) == [w EXCEPT !.events.calls[c.id].fate = Append(@, kind)]

\* sd_bus_send_with_reply_cancel() taking the callback off the timeout queue
\* only.
sd_bus_send_with_reply_cancel_prioq_only(w, key) ==
  IF key = 0 THEN Res(w, 0 - errno.EINVAL)
  ELSE IF bus_pid_changed(w) THEN Res(w, 0 - errno.ECHILD)
  ELSE IF reply_callbacks_get(w, key) = {} THEN Res(w, 0)
  ELSE LET c == CHOOSE c \in reply_callbacks_get(w, key) : TRUE
       IN  Res(Fate([w EXCEPT !.reply_callbacks_prioq = @ \ {c}], c, "cancel"),
               1)

\* sd_bus_send_with_reply_cancel()
sd_bus_send_with_reply_cancel(w, key) ==
  IF key = 0 THEN Res(w, 0 - errno.EINVAL)
  ELSE IF bus_pid_changed(w) THEN Res(w, 0 - errno.ECHILD)
  ELSE IF reply_callbacks_get(w, key) = {} THEN Res(w, 0)
  ELSE LET c == CHOOSE c \in reply_callbacks_get(w, key) : TRUE
           w1 == [w EXCEPT !.reply_callbacks = @ \ {c}]
           w2 == IF c.timeout # 0
                 THEN [w1 EXCEPT !.reply_callbacks_prioq = @ \ {c}]
                 ELSE w1
       IN  Res(Fate(w2, c, "cancel"), 1)

\* The failure paths of sd_bus_send_with_reply() after hashmap_put(), with the
\* call of sd_bus_send_with_reply_cancel() left out.
reply_rollback_skipped(w, c, r) == Res(Fate(w, c, "failed"), r)

\* The failure paths of sd_bus_send_with_reply() after hashmap_put():
\* sd_bus_send_with_reply_cancel(bus, c->serial); return r.
reply_rollback(w, c, r) ==
  Res(Fate(sd_bus_send_with_reply_cancel(w, c.serial).w, c, "failed"), r)

\* sd_bus_send_with_reply()
sd_bus_send_with_reply(w, m, callback, usec, want_serial, tx) ==
  IF ~BUS_IS_OPEN(w.state) THEN Res(w, 0 - errno.ENOTCONN)
  ELSE IF w.msgs[m].type # "METHOD_CALL" THEN Res(w, 0 - errno.EINVAL)
  ELSE IF w.msgs[m].no_reply_expected THEN Res(w, 0 - errno.EINVAL)
  ELSE IF bus_pid_changed(w) THEN Res(w, 0 - errno.ECHILD)
  ELSE
    LET w1 == bus_seal_message(w, m).w
        c == [id |-> Len(w.events.calls) + 1, serial |-> w1.msgs[m].serial,
              timeout |-> calc_elapse(w1, usec), callback |-> callback]
        w2 == [w1 EXCEPT !.events.calls =
                           Append(@, [serial |-> c.serial, fate |-> <<>>])]
    IN  IF tx.oom = "new0" THEN Res(w1, 0 - errno.ENOMEM)
        ELSE IF reply_callbacks_get(w2, c.serial) # {}
        THEN \* hashmap_put(): free(c)
             Res(Fate(w2, c, "rejected"), 0 - errno.EEXIST)
        ELSE IF tx.oom = "hashmap_put"
        THEN Res(Fate(w2, c, "rejected"), 0 - errno.ENOMEM)
        ELSE IF c.timeout # 0 /\ tx.oom = "prioq_put"
        THEN \* c->timeout = 0, then cancel
             reply_rollback([w2 EXCEPT !.reply_callbacks =
                                         @ \cup {[c EXCEPT !.timeout = 0]}],
                            c, 0 - errno.ENOMEM)
        ELSE
          LET w3 == [w2 EXCEPT !.reply_callbacks = @ \cup {c},
                               !.reply_callbacks_prioq =
                                 IF c.timeout # 0 THEN @ \cup {c} ELSE @]
              snd == sd_bus_send(w3, m, want_serial, tx)
          IN  IF snd.r < 0 THEN reply_rollback(snd.w, c, snd.r)
              ELSE Res(Fate(snd.w, c, "registered"), snd.r)

(***************************************************************************)
(* Starting the connection.  The transport (bus-socket.c, bus-kernel.c) is *)
(* a collaborator: what one call of it achieves is an input of the model,  *)
(* "err" (it fails), "wait" (a connect is in progress) or "done".  tr is   *)
(* the sequence of these outcomes for the calls made, in order.            *)
(***************************************************************************)
\* The descriptor the transport opens.
TransportFd == 3

\* The unique name the kernel transport assigns.
KernelName == <<":", "1", ".", "1">>

Outcome(tr) == IF tr = <<>> THEN "err" ELSE Head(tr)
Rest(tr) == IF tr = <<>> THEN <<>> ELSE Tail(tr)

\* bus_start_running()
bus_start_running(w) ==
  IF w.conf.bus_client /\ ~w.is_kernel
  THEN Res([w EXCEPT !.state = "HELLO"], 1)
  ELSE Res([w EXCEPT !.state = "RUNNING"], 1)

\* bus_socket_start_auth(): the SASL handshake begins.
bus_socket_start_auth(w) == Res([w EXCEPT !.state = "AUTHENTICATING"], 0)

\* bus_socket_connect(): the connection is Opening while the connect is in
\* progress.
bus_socket_connect(w, o) ==
  LET w1 == [w EXCEPT !.conf.input_fd = TransportFd,
                      !.conf.output_fd = TransportFd]
  IN  IF o = "err" THEN Res(w, 0 - errno.ECONNREFUSED)
      ELSE IF o = "wait" THEN Res([w1 EXCEPT !.state = "OPENING"], 1)
      ELSE bus_socket_start_auth(w1)

\* bus_socket_exec(): a socket pair and a child process.
bus_socket_exec(w, o) ==
  IF o = "err" THEN Res(w, 0 - errno.EIO)
  ELSE bus_socket_start_auth([w EXCEPT !.conf.input_fd = TransportFd,
                                       !.conf.output_fd = TransportFd])

\* bus_socket_take_fd()
bus_socket_take_fd(w, o) ==
  IF o = "err" THEN Res(w, 0 - errno.EIO) ELSE bus_socket_start_auth(w)

\* bus_kernel_take_fd(): the kernel's hello gives the unique name, and there
\* is no handshake.
bus_kernel_take_fd(w, o) ==
  IF o = "err" THEN Res(w, 0 - errno.EIO)
  ELSE bus_start_running([w EXCEPT !.is_kernel = TRUE,
                                   !.conf.unique_name = KernelName])

\* bus_kernel_connect()
bus_kernel_connect(w, o) ==
  IF o = "err" THEN Res(w, 0 - errno.EIO)
  ELSE bus_kernel_take_fd([w EXCEPT !.conf.input_fd = TransportFd,
                                    !.conf.output_fd = TransportFd], o)

\* bus_reset_parsed_address()
bus_reset_parsed_address(w) ==
  [w EXCEPT !.conf.sockaddr = FALSE, !.conf.exec_path = FALSE,
            !.conf.server_id = SD_ID128_NULL, !.conf.kernel = FALSE]

\* bus_parse_next_address(): the entries of the model carry no guid.
bus_parse_next_address(w) ==
  LET a == w.conf.address
      w1 == bus_reset_parsed_address(w)
      RECURSIVE scan(_)
      scan(i) ==
        IF a[i] = "skip"
        THEN \* a = strchr(a, ';')
             IF i = Len(a) THEN Res(w1, 0) ELSE scan(i + 1)
        ELSE IF a[i] = "bad" THEN Res(w1, 0 - errno.EINVAL)
        ELSE Res([w1 EXCEPT !.conf.address_index = i,
                            !.conf.sockaddr = (a[i] = "unix"),
                            !.conf.exec_path = (a[i] = "unixexec"),
                            !.conf.kernel = (a[i] = "kernel")], 1)
  IN  IF a = NullAddress THEN Res(w, 0)
      ELSE IF w.conf.address_index >= Len(a) THEN Res(w, 0)
      ELSE scan(w.conf.address_index + 1)

\* bus_start_address()
RECURSIVE bus_start_address(_, _)
bus_start_address(w, tr) ==
  LET w1 == sd_bus_close(w)
      tried == w1.conf.sockaddr \/ w1.conf.exec_path \/ w1.conf.kernel
      r == IF w1.conf.sockaddr THEN bus_socket_connect(w1, Outcome(tr))
           ELSE IF w1.conf.exec_path THEN bus_socket_exec(w1, Outcome(tr))
           ELSE bus_kernel_connect(w1, Outcome(tr))
      w2 == IF tried THEN [r.w EXCEPT !.conf.last_connect_error = 0 - r.r]
            ELSE w1
      p == bus_parse_next_address(w2)
  IN  IF tried /\ r.r >= 0 THEN r
      ELSE IF p.r < 0 THEN p
      ELSE IF p.r = 0
      THEN Res(p.w, IF p.w.conf.last_connect_error # 0
                    THEN 0 - p.w.conf.last_connect_error
                    ELSE 0 - errno.ECONNREFUSED)
      ELSE bus_start_address(p.w, IF tried THEN Rest(tr) ELSE tr)

\* bus_next_address()
bus_next_address(w, tr) == bus_start_address(bus_reset_parsed_address(w), tr)

\* bus_socket_process_opening(): a failed connect goes on with the next
\* address.
bus_socket_process_opening(w, tr) ==
  IF Outcome(tr) = "wait" THEN Res(w, 0)
  ELSE IF Outcome(tr) = "done" THEN bus_socket_start_auth(w)
  ELSE bus_next_address(
         [w EXCEPT !.conf.last_connect_error = errno.ECONNREFUSED], Rest(tr))

\* bus_socket_process_authenticating()
bus_socket_process_authenticating(w, o) ==
  IF o = "wait" THEN Res(w, 0)
  ELSE IF o = "done" THEN bus_start_running(w)
  ELSE Res(w, 0 - errno.EPERM)

\* S_ISCHR() of the value v
S_ISCHR(v) == (v \div 4096) % 16 = 2

\* bus_start_fd(): the descriptors are open, so that fcntl() and fstat()
\* succeed. S_ISCHR() is given the descriptor.
bus_start_fd(w, o) ==
  IF S_ISCHR(w.conf.input_fd) THEN bus_kernel_take_fd(w, o)
  ELSE bus_socket_take_fd(w, o)

\* bus_send_hello(): the Hello call is a new message; tx.oom = "message":
\* sd_bus_message_new_method_call() fails.
bus_send_hello(w, tx) ==
  IF ~w.conf.bus_client \/ w.is_kernel THEN Res(w, 0)
  ELSE IF tx.oom = "message" THEN Res(w, 0 - errno.ENOMEM)
  ELSE LET m == Len(w.msgs) + 1
           w1 == [w EXCEPT !.msgs =
                    Append(@, [type |-> "METHOD_CALL", sealed |-> FALSE,
                               serial |-> 0, no_reply_expected |-> FALSE,
                               dont_send |-> FALSE])]
           r == sd_bus_send_with_reply(w1, m, "hello_callback", 0, TRUE, tx)
       IN  IF r.r < 0 THEN r
           ELSE Res([r.w EXCEPT !.hello_serial = r.w.msgs[m].serial], r.r)

\* sd_bus_start(): bus->state = BUS_OPENING comes before the tests of the
\* configuration.
sd_bus_start(w, tr, tx) ==
  LET w1 == [w EXCEPT !.state = "OPENING"]
      r == IF w.conf.input_fd >= 0 THEN bus_start_fd(w1, Outcome(tr))
           ELSE bus_start_address(w1, tr)
  IN  IF w.state # "UNSET" THEN Res(w, 0 - errno.EPERM)
      ELSE IF bus_pid_changed(w) THEN Res(w, 0 - errno.ECHILD)
      ELSE IF w.conf.is_server /\ w.conf.bus_client
      THEN Res(w1, 0 - errno.EINVAL)
      ELSE IF ~(\/ w.conf.input_fd >= 0 \/ w.conf.address # NullAddress
                \/ w.conf.sockaddr \/ w.conf.exec_path \/ w.conf.kernel)
      THEN Res(w1, 0 - errno.EINVAL)
      ELSE IF r.r < 0 THEN r
      ELSE bus_send_hello(r.w, tx)

(***************************************************************************)
(* sd_bus_process() and the steps of one dispatch iteration.  A step that  *)
(* invokes a callback of the program suspends the iteration (pending) with *)
(* pc at the callback; the callback's return resumes it.                   *)
(***************************************************************************)
\* out is the message sd_bus_process() stores in *ret.
Ret(w, r, stage) ==
  [w |-> w, r |-> r, pending |-> FALSE, stage |-> stage, out |-> NoMsg]
Pend(w) == [w |-> w, r |-> 0, pending |-> TRUE, stage |-> "", out |-> NoMsg]

\* bus_error_to_errno() of an error name.
bus_error_to_errno(name) ==
  IF name = "" THEN 0 - errno.EIO
  ELSE IF name = "org.freedesktop.DBus.Error.InvalidArgs" THEN 0 - errno.EINVAL
  ELSE IF name = "org.freedesktop.DBus.Error.Timeout" THEN 0 - errno.ETIMEDOUT
  ELSE 0 - errno.EIO

\* bus_message_to_errno()
bus_message_to_errno(m) ==
  IF m.type # "METHOD_ERROR" THEN 0 ELSE bus_error_to_errno(m.error)

Alpha == {"a", "b", "_", "-"}
Digit == {"1", "7"}

\* service_name_is_valid(): elements separated by dots, at least two, none
\* empty; a digit begins an element of a unique name only.
service_name_is_valid(p) ==
  LET unique == p # <<>> /\ p[1] = ":"
      RECURSIVE walk(_, _, _)
      walk(q, dot, found_dot) ==
        IF q > Len(p) THEN ~dot /\ found_dot
        ELSE IF p[q] = "."
        THEN IF dot THEN FALSE ELSE walk(q + 1, TRUE, TRUE)
        ELSE IF \/ p[q] \in Alpha
                \/ ((~dot \/ unique) /\ p[q] \in Digit)
        THEN walk(q + 1, FALSE, found_dot)
        ELSE FALSE
  IN  IF p = <<>> THEN FALSE
      ELSE walk(IF unique THEN 2 ELSE 1, TRUE, FALSE)

\* hello_callback() storing whatever name the reply carries.
hello_callback_any_name(w, reply, oom) ==
  IF w.state # "HELLO" THEN Res([w EXCEPT !.pc = "stuck"], 0)
  ELSE IF bus_message_to_errno(reply) < 0
  THEN Res(w, bus_message_to_errno(reply))
  ELSE IF reply.body = <<>> THEN Res(w, 0 - errno.ENXIO)
  ELSE IF oom THEN Res(w, 0 - errno.ENOMEM)
  ELSE Res([w EXCEPT !.conf.unique_name = reply.body[1],
                     !.state = "RUNNING"], 1)

\* hello_callback(): the body of a message is the sequence of its string
\* arguments; assert(bus->state == BUS_HELLO) aborts the program; oom:
\* strdup() fails.
hello_callback(w, reply, oom) ==
  IF w.state # "HELLO" THEN Res([w EXCEPT !.pc = "stuck"], 0)
  ELSE IF bus_message_to_errno(reply) < 0
  THEN Res(w, bus_message_to_errno(reply))
  ELSE IF reply.body = <<>> THEN Res(w, 0 - errno.ENXIO)
  ELSE IF ~service_name_is_valid(reply.body[1]) \/ reply.body[1][1] # ":"
  THEN Res(w, 0 - errno.EBADMSG)
  ELSE IF oom THEN Res(w, 0 - errno.ENOMEM)
  ELSE Res([w EXCEPT !.conf.unique_name = reply.body[1],
                     !.state = "RUNNING"], 1)

\* c->callback(bus, m, c->userdata) for the reply_callback in cur.c: the
\* connection's own hello_callback() runs to its end, a callback of the
\* program suspends the iteration.
Invoke(w, m, env) ==
  IF w.cur.c.callback = "hello_callback"
  THEN LET h == hello_callback([w EXCEPT !.pc = "idle"], m,
                               env.oom = "strdup")
       IN  Ret(h.w, h.r, "reply")
  ELSE Pend(w)

\* What process_timeout() returns after the callback returned r.
timeout_return(res) ==
  IF res.pending THEN res
  ELSE Ret(res.w, IF res.r < 0 THEN res.r ELSE 1, "timeout")

TimeoutError(c) ==
  [type |-> "METHOD_ERROR", reply_serial |-> c.serial,
   error |-> "org.freedesktop.DBus.Error.Timeout", body |-> <<>>]

\* process_timeout() without the comparison with the clock.
process_timeout_early(w, c, env) ==
  IF w.reply_callbacks_prioq = {} THEN Ret(w, 0, "")
  ELSE IF env.oom = "message" THEN Ret(w, 0 - errno.ENOMEM, "timeout")
  ELSE LET w1 == [w EXCEPT
                    !.reply_callbacks_prioq = @ \ {c},
                    !.reply_callbacks = {d \in @ : d.serial # c.serial},
                    !.pc = "timeout_cb", !.cur.c = c,
                    !.cur.m = TimeoutError(c)]
       IN  timeout_return(Invoke(Fate(w1, c, "timeout"), TimeoutError(c), env))

\* process_timeout() up to the call of c->callback; c is what prioq_peek()
\* returned.
process_timeout(w, c, env) ==
  IF w.reply_callbacks_prioq = {} THEN Ret(w, 0, "")
  ELSE IF c.timeout > w.now THEN Ret(w, 0, "")
  ELSE IF env.oom = "message" THEN Ret(w, 0 - errno.ENOMEM, "timeout")
  ELSE LET w1 == [w EXCEPT
                    !.reply_callbacks_prioq = @ \ {c},
                    !.reply_callbacks = {d \in @ : d.serial # c.serial},
                    !.pc = "timeout_cb", !.cur.c = c,
                    !.cur.m = TimeoutError(c)]
       IN  timeout_return(Invoke(Fate(w1, c, "timeout"), TimeoutError(c), env))

\* process_hello() letting every reply through, whatever call it answers.
process_hello_any_reply(w, m) ==
  IF w.state # "HELLO" THEN 0
  ELSE IF m.type \notin {"METHOD_RETURN", "METHOD_ERROR"} THEN 0 - errno.EIO
  ELSE 0

\* process_hello()
process_hello(w, m) ==
  IF w.state # "HELLO" THEN 0
  ELSE IF m.type \notin {"METHOD_RETURN", "METHOD_ERROR"} THEN 0 - errno.EIO
  ELSE IF m.reply_serial # w.hello_serial THEN 0 - errno.EIO
  ELSE 0

\* A reply finds no callback: noted as "stray" (once) with every
\* reply_callback struct that was keyed with its reply serial.
Stray(w, m) ==
  [w EXCEPT !.events.calls =
     [id \in DOMAIN @ |->
        IF /\ @[id].serial = m.reply_serial /\ Len(@[id].fate) > 0
           /\ @[id].fate[Len(@[id].fate)] # "stray"
        THEN [@[id] EXCEPT !.fate = Append(@, "stray")]
        ELSE @[id]]]

\* process_reply() keeping the callback in the table and in the queue.
process_reply_keeps(w, m, env) ==
  IF m.type \notin {"METHOD_RETURN", "METHOD_ERROR"} THEN Ret(w, 0, "")
  ELSE IF reply_callbacks_get(w, m.reply_serial) = {}
  THEN Ret(Stray(w, m), 0, "")
  ELSE LET c == CHOOSE c \in reply_callbacks_get(w, m.reply_serial) : TRUE
       IN  Invoke(Fate([w EXCEPT !.pc = "reply_cb", !.cur.c = c], c, "reply"),
                  m, env)

\* process_reply() taking the callback out of the table and leaving it in
\* the timeout queue.
process_reply_keeps_deadline(w, m, env) ==
  IF m.type \notin {"METHOD_RETURN", "METHOD_ERROR"} THEN Ret(w, 0, "")
  ELSE IF reply_callbacks_get(w, m.reply_serial) = {}
  THEN Ret(Stray(w, m), 0, "")
  ELSE LET c == CHOOSE c \in reply_callbacks_get(w, m.reply_serial) : TRUE
           w1 == [w EXCEPT !.reply_callbacks = @ \ {c},
                           !.pc = "reply_cb", !.cur.c = c]
       IN  Invoke(Fate(w1, c, "reply"), m, env)

\* process_reply() up to the call of c->callback.
process_reply(w, m, env) ==
  IF m.type \notin {"METHOD_RETURN", "METHOD_ERROR"} THEN Ret(w, 0, "")
  ELSE IF reply_callbacks_get(w, m.reply_serial) = {}
  THEN Ret(Stray(w, m), 0, "")
  ELSE LET c == CHOOSE c \in reply_callbacks_get(w, m.reply_serial) : TRUE
           w1 == [w EXCEPT
                    !.reply_callbacks = @ \ {c},
                    !.reply_callbacks_prioq =
                      IF c.timeout # 0 THEN @ \ {c} ELSE @,
                    !.pc = "reply_cb", !.cur.c = c]
       IN  Invoke(Fate(w1, c, "reply"), m, env)

\* The filter_callback struct with identity l, where it is in the list (0 if
\* it has been unlinked and freed), and l->callbacks_next.
FilterIndex(w, l) ==
  IF \E k \in 1..Len(w.filter_callbacks) : w.filter_callbacks[k].id = l
  THEN CHOOSE k \in 1..Len(w.filter_callbacks) : w.filter_callbacks[k].id = l
  ELSE 0
FilterHead(w) ==
  IF Len(w.filter_callbacks) = 0 THEN 0 ELSE w.filter_callbacks[1].id
FilterNext(w, l) ==
  IF FilterIndex(w, l) = Len(w.filter_callbacks) THEN 0
  ELSE w.filter_callbacks[FilterIndex(w, l) + 1].id

\* process_filter(): filter_do is the body of the do-while, filter_for the
\* LIST_FOREACH from l on, filter_while the loop condition.  Reading a field
\* of a struct that has been freed is undefined behaviour (pc "ub").
RECURSIVE filter_do(_), filter_for(_, _), filter_while(_)
filter_do(w) ==
  filter_for([w EXCEPT !.filter_callbacks_modified = FALSE], FilterHead(w))

\* The LIST_FOREACH of process_filter() without the test of last_iteration.
filter_for_again(w, l) ==
  IF l = 0 THEN filter_while(w)
  ELSE IF w.filter_callbacks_modified THEN filter_while(w)
  ELSE IF FilterIndex(w, l) = 0 THEN Pend([w EXCEPT !.pc = "ub"])
  ELSE LET k == FilterIndex(w, l)
       IN  Pend([w EXCEPT
                   !.filter_callbacks[k].last_iteration = w.iteration_counter,
                   !.events.filters[l] = Append(@, w.iteration_counter),
                   !.pc = "filter_cb", !.cur.l = l])

filter_for(w, l) ==
  IF l = 0 THEN filter_while(w)
  ELSE IF w.filter_callbacks_modified THEN filter_while(w)
  ELSE IF FilterIndex(w, l) = 0 THEN Pend([w EXCEPT !.pc = "ub"])
  ELSE LET k == FilterIndex(w, l)
       IN  IF w.filter_callbacks[k].last_iteration = w.iteration_counter
           THEN filter_for(w, FilterNext(w, l))
           ELSE LET w1 == [w EXCEPT
                             !.filter_callbacks[k].last_iteration =
                               w.iteration_counter,
                             !.events.filters[l] =
                               Append(@, w.iteration_counter),
                             !.pc = "filter_cb", !.cur.l = l]
                IN  Pend(w1)

filter_while(w) ==
  IF w.filter_callbacks_modified THEN filter_do(w) ELSE Ret(w, 0, "")

process_filter(w) == filter_do(w)

\* process_match(): bus_match_run() over the match rules; this connection has
\* none.
process_match(w, m) == 0

\* node_vtable_get_userdata(): the registrations of the model pass no find
\* function, so it stores c->userdata and returns 1.
node_vtable_get_userdata(w, path, c) == 1

\* The sd_bus_vtable entry a vtable_member v points to (v->vtable).
VtableEntry(v) ==
  LET vt == Vtables[v.parent.vtable]
  IN  vt[CHOOSE k \in DOMAIN vt :
           /\ vt[k].type \in {"PROPERTY", "WRITABLE_PROPERTY"}
           /\ vt[k].member = v.key.member]

\* The interfaces the connection answers itself, the error names of its
\* replies and the machine id sd_id128_get_machine() reads.
Peer == "org.freedesktop.DBus.Peer"
Properties == "org.freedesktop.DBus.Properties"
UnknownObject == "org.freedesktop.DBus.Error.UnknownObject"
UnknownMethod == "org.freedesktop.DBus.Error.UnknownMethod"
UnknownProperty == "org.freedesktop.DBus.Error.UnknownProperty"
UnknownInterface == "org.freedesktop.DBus.Error.UnknownInterface"
InvalidArgs == "org.freedesktop.DBus.Error.InvalidArgs"
PropertyReadOnly == "org.freedesktop.DBus.Error.PropertyReadOnly"
GetterError == "org.example.Error.Get"
MachineId == "0123456789abcdef0123456789abcdef"

\* sd_bus_message_new_method_return() and sd_bus_message_new_method_error():
\* a new message that answers call; it is not to be sent when the call
\* expected no reply.
NewReply(type, call, error, body) ==
  [type |-> type, sealed |-> FALSE, serial |-> 0, no_reply_expected |-> FALSE,
   dont_send |-> call.no_reply_expected, reply_serial |-> call.serial,
   error |-> error, body |-> body]

\* sd_bus_send(bus, reply, NULL) of a new message, which is freed on return.
Freed(w, snd) ==
  IF snd.r < 0
  THEN Res([snd.w EXCEPT !.msgs = SubSeq(@, 1, Len(w.msgs))], snd.r)
  ELSE snd
send_reply(w, reply, tx) ==
  Freed(w, sd_bus_send([w EXCEPT !.msgs = Append(@, reply)],
                       Len(w.msgs) + 1, FALSE, tx))

\* `if (r < 0) return r; return 1;` after a reply was sent.
Handled(res) == IF res.r < 0 THEN res ELSE Res(res.w, 1)
Ended(res, stage) ==
  IF res.r < 0 THEN Ret(res.w, res.r, stage) ELSE Ret(res.w, 1, stage)

\* sd_bus_reply_method_error(): the messages a connection reads are sealed;
\* tx.oom = "message": sd_bus_message_new_method_error() fails.
sd_bus_reply_method_error(w, call, name, tx) ==
  IF call.type # "METHOD_CALL" THEN Res(w, 0 - errno.EINVAL)
  ELSE IF name = "" THEN Res(w, 0 - errno.EINVAL)
  ELSE IF ~BUS_IS_OPEN(w.state) THEN Res(w, 0 - errno.ENOTCONN)
  ELSE IF bus_pid_changed(w) THEN Res(w, 0 - errno.ECHILD)
  ELSE IF call.no_reply_expected THEN Res(w, 0)
  ELSE IF tx.oom = "message" THEN Res(w, 0 - errno.ENOMEM)
  ELSE send_reply(w, NewReply("METHOD_ERROR", call, name, <<>>), tx)

\* sd_bus_reply_method_errorf(); tx.oom = "strdup": strdup() or vasprintf()
\* fails.
sd_bus_reply_method_errorf(w, call, name, tx) ==
  IF tx.oom = "strdup" THEN Res(w, 0 - errno.ENOMEM)
  ELSE sd_bus_reply_method_error(w, call, name, tx)

\* process_builtin() that leaves the members it does not know to the objects.
process_builtin_known_only(w, m, tx) ==
  IF m.type # "METHOD_CALL" THEN Res(w, 0)
  ELSE IF m.interface # Peer THEN Res(w, 0)
  ELSE IF m.no_reply_expected THEN Res(w, 1)
  ELSE IF m.member \notin {"Ping", "GetMachineId"} THEN Res(w, 0)
  ELSE IF m.member = "GetMachineId" /\ tx.oom = "machine_id"
  THEN Res(w, 0 - errno.ENOENT)
  ELSE IF tx.oom = "message" THEN Res(w, 0 - errno.ENOMEM)
  ELSE LET reply == IF m.member = "Ping"
                    THEN NewReply("METHOD_RETURN", m, "", <<>>)
                    ELSE NewReply("METHOD_RETURN", m, "", <<MachineId>>)
           snd == send_reply(w, reply, tx)
       IN  IF snd.r < 0 THEN snd ELSE Res(snd.w, 1)

\* process_builtin(); tx.oom = "machine_id": sd_id128_get_machine() fails.
process_builtin(w, m, tx) ==
  IF m.type # "METHOD_CALL" THEN Res(w, 0)
  ELSE IF m.interface # Peer THEN Res(w, 0)
  ELSE IF m.no_reply_expected THEN Res(w, 1)
  ELSE IF m.member = "GetMachineId" /\ tx.oom = "machine_id"
  THEN Res(w, 0 - errno.ENOENT)
  ELSE IF tx.oom = "message" THEN Res(w, 0 - errno.ENOMEM)
  ELSE Handled(send_reply(
                 w, IF m.member = "Ping"
                    THEN NewReply("METHOD_RETURN", m, "", <<>>)
                    ELSE IF m.member = "GetMachineId"
                    THEN NewReply("METHOD_RETURN", m, "", <<MachineId>>)
                    ELSE NewReply("METHOD_ERROR", m, UnknownMethod, <<>>),
                 tx))

\* The sd_bus_vtable entry of a method a vtable_member v points to.
VtableMethod(v) ==
  LET vt == Vtables[v.parent.vtable]
  IN  vt[CHOOSE k \in DOMAIN vt :
           vt[k].type = "METHOD" /\ vt[k].member = v.key.member]

\* bus_node_exists()
bus_node_exists(w, n, path, require_fallback) ==
  \/ \E k \in DOMAIN w.nodes[n].callbacks :
       ~(require_fallback /\ ~w.nodes[n].callbacks[k].is_fallback)
  \/ \E k \in DOMAIN w.nodes[n].vtables :
       /\ ~(require_fallback /\ ~w.nodes[n].vtables[k].is_fallback)
       /\ node_vtable_get_userdata(w, path, w.nodes[n].vtables[k]) > 0
  \/ /\ ~require_fallback
     /\ w.nodes[n].enumerators # <<>> \/ w.nodes[n].object_manager

\* A handler of the program is called by object dispatch.
Called(w, p, handler) ==
  [w EXCEPT !.events.objects =
     Append(@, [iteration |-> w.iteration_counter, path |-> w.cur.m.path,
                p |-> p, handler |-> handler])]

\* property_get_set_callbacks_run() for the vtable_member v; tx.prop is what
\* the property's getter or setter does: "ok", "fail" (it returns an error)
\* or "error" (it sets the sd_bus_error).
property_get_set_callbacks_run(w, v, require_fallback, is_get, tx) ==
  LET m == w.cur.m
      u == node_vtable_get_userdata(w, m.path, v.parent)
      w1 == [w EXCEPT !.cur.obj.found = TRUE]
      read_only == ~is_get /\ VtableEntry(v).type # "WRITABLE_PROPERTY"
  IN  IF require_fallback /\ ~v.parent.is_fallback THEN Res(w, 0)
      ELSE IF u <= 0 THEN Res(w, u)
      ELSE IF tx.oom = "message" THEN Res(w1, 0 - errno.ENOMEM)
      ELSE IF ~read_only /\ tx.prop = "fail" THEN Res(w1, 0 - errno.EIO)
      ELSE IF read_only \/ tx.prop = "error"
      THEN Handled(sd_bus_reply_method_error(
                     w1, m,
                     IF read_only THEN PropertyReadOnly ELSE GetterError, tx))
      ELSE Handled(send_reply(
                     w1, NewReply("METHOD_RETURN", m, "",
                                  IF is_get THEN <<v.key.member>> ELSE <<>>),
                     tx))

\* property_get_all_callbacks_run() over the vtables of the node at p, with
\* vtable_append_all_properties(): every vtable of the model has a property,
\* and tx.prop is what its getter does.
property_get_all_callbacks_run(w, p, require_fallback, iface, tx) ==
  LET m == w.cur.m
      vtables == w.nodes[p].vtables
      applies == {k \in DOMAIN vtables :
                    /\ ~(require_fallback /\ ~vtables[k].is_fallback)
                    /\ node_vtable_get_userdata(w, m.path, vtables[k]) > 0}
      found_interface ==
        \E k \in applies : iface = "" \/ vtables[k].interface = iface
      w1 == IF applies # {} THEN [w EXCEPT !.cur.obj.found = TRUE] ELSE w
  IN  IF tx.oom = "message" THEN Res(w, 0 - errno.ENOMEM)
      ELSE IF found_interface /\ tx.prop = "fail" THEN Res(w1, 0 - errno.EIO)
      ELSE IF found_interface /\ tx.prop = "error"
      THEN Handled(sd_bus_reply_method_error(w1, m, GetterError, tx))
      ELSE IF ~found_interface
      THEN Handled(sd_bus_reply_method_errorf(w1, m, UnknownInterface, tx))
      ELSE Handled(send_reply(
                     w1, NewReply("METHOD_RETURN", m, "", <<iface>>), tx))

\* sd_bus_message_read(m, types, ...) finds the strings the call must carry.
Carries(m, n) == Len(m.body) >= n

\* The prefix the loop of process_object() tries after p: p without its last
\* component, "/" when that was the only one.
NextPrefix(p) ==
  IF strrchr_slash(p) = 0 THEN ROOT ELSE SubSeq(p, 1, strrchr_slash(p))

\* process_object(), as the steps it is suspended between: in every one p is
\* the prefix whose node is visited (the message's own path first) and
\* require_fallback is p # m->path. bus->nodes_modified is set to false at
\* line 2822 and nothing in sd-bus.c sets it, so both tests of it fail: the
\* do-while runs once and the for (;;) ends at "/".
\*  node_callbacks_run: the LIST_FOREACH from the k-th callback of the node
\*    on. A struct node_callback has last_iteration = 0 from new0() and
\*    nothing assigns it, while process_message() has incremented
\*    iteration_counter: the test of line 2044 fails.
\*  object_methods: object_find_and_run() from line 2717 on.
\*  object_properties: object_find_and_run() from line 2732 on.
\*  object_prefixes: the for (;;) of process_object() after the node of p.
\*  object_end: process_object() from line 2853 on.
RECURSIVE node_callbacks_run(_, _, _, _)
RECURSIVE object_find_and_run(_, _, _)
RECURSIVE object_prefixes(_, _, _)

\* process_object() answering every call of a registered object with
\* UnknownMethod.
object_end_unknown_method(w, tx) ==
  LET e == sd_bus_reply_method_errorf(w, w.cur.m, UnknownMethod, tx)
  IN  IF ~w.cur.obj.found THEN Ret(w, 0, "")
      ELSE IF e.r < 0 THEN Ret(e.w, e.r, "object_end")
      ELSE Ret(e.w, 1, "object_end")

object_end(w, tx) ==
  IF ~w.cur.obj.found THEN Ret(w, 0, "")
  ELSE Ended(sd_bus_reply_method_errorf(
               w, w.cur.m,
               IF /\ w.cur.m.interface = Properties
                  /\ w.cur.m.member \in {"Get", "Set"}
               THEN UnknownProperty ELSE UnknownMethod, tx),
             "object_end")

\* The end of object_find_and_run(), own being what the Properties calls
\* returned: `if (!*found_object) { r = bus_node_exists(...); if (r > 0)
\* *found_object = true; } return 0;`, and process_object() goes on with
\* the next prefix.
properties_end(own, p, tx) ==
  IF own.r # 0 THEN Ret(own.w, own.r, "object")
  ELSE object_prefixes(
         IF /\ ~own.w.cur.obj.found
            /\ bus_node_exists(own.w, p, own.w.cur.m.path,
                               p # own.w.cur.m.path)
         THEN [own.w EXCEPT !.cur.obj.found = TRUE] ELSE own.w,
         p, tx)

object_properties(w, p, tx) ==
  LET m == w.cur.m
      fb == p # m.path
      key == [path |-> p, interface |-> m.body[1], member |-> m.body[2]]
      found == {v \in w.vtable_properties : v.key = key}
  IN  properties_end(
        IF m.interface = Properties /\ m.member \in {"Get", "Set"}
        THEN IF ~Carries(m, 2) THEN Res(w, 0 - errno.ENXIO)
             ELSE IF found # {}
             THEN property_get_set_callbacks_run(
                    w, CHOOSE v \in found : TRUE, fb, m.member = "Get", tx)
             ELSE Res(w, 0)
        ELSE IF m.interface = Properties /\ m.member = "GetAll"
        THEN IF ~Carries(m, 1) THEN Res(w, 0 - errno.ENXIO)
             ELSE property_get_all_callbacks_run(w, p, fb, m.body[1], tx)
        ELSE Res(w, 0),
        p, tx)

\* method_callbacks_run() up to the call of the method's handler.
method_callbacks_run(w, v, p, tx) ==
  LET m == w.cur.m
      u == node_vtable_get_userdata(w, m.path, v.parent)
      w1 == [w EXCEPT !.cur.obj.found = TRUE]
  IN  IF p # m.path /\ ~v.parent.is_fallback THEN Ret(w, 0, "")
      ELSE IF u <= 0 THEN Ret(w, u, "")
      ELSE IF VtableMethod(v).signature # m.signature
      THEN Ended(sd_bus_reply_method_errorf(w1, m, InvalidArgs, tx), "object")
      ELSE Pend(Called([w1 EXCEPT !.pc = "method_cb", !.cur.obj.p = p,
                                  !.cur.obj.k = 0],
                       p, VtableMethod(v).member))

\* object_find_and_run() after the method lookup, run being what
\* method_callbacks_run() returned.
methods_end(run, p, tx) ==
  IF run.pending \/ run.r # 0 THEN run
  ELSE object_properties(run.w, p, tx)

object_methods(w, p, tx) ==
  LET m == w.cur.m
      key == [path |-> p, interface |-> m.interface, member |-> m.member]
      found == {v \in w.vtable_methods : v.key = key}
  IN  IF m.interface = "" \/ m.member = ""
      THEN object_prefixes(w, p, tx)
      ELSE methods_end(
             IF found = {} THEN Ret(w, 0, "")
             ELSE method_callbacks_run(w, CHOOSE v \in found : TRUE, p, tx),
             p, tx)

\* node_callbacks_run() calling the callbacks of a prefix's node whether
\* they are fallbacks or not.
node_callbacks_run_any(w, p, k, tx) ==
  LET first == w.nodes[p].callbacks
  IN  IF k > Len(first) THEN object_methods(w, p, tx)
      ELSE Pend(Called([w EXCEPT !.cur.obj.found = TRUE, !.pc = "object_cb",
                                 !.cur.obj.p = p, !.cur.obj.k = k],
                       p, first[k].callback))

node_callbacks_run(w, p, k, tx) ==
  LET first == w.nodes[p].callbacks
  IN  IF k > Len(first) THEN object_methods(w, p, tx)
      ELSE IF p # w.cur.m.path /\ ~first[k].is_fallback
      THEN node_callbacks_run(w, p, k + 1, tx)
      ELSE Pend(Called([w EXCEPT !.cur.obj.found = TRUE, !.pc = "object_cb",
                                 !.cur.obj.p = p, !.cur.obj.k = k],
                       p, first[k].callback))

object_find_and_run(w, p, tx) ==
  IF p \notin DOMAIN w.nodes THEN object_prefixes(w, p, tx)
  ELSE node_callbacks_run(w, p, 1, tx)

object_prefixes(w, p, tx) ==
  IF p = ROOT THEN object_end(w, tx)
  ELSE object_find_and_run(w, NextPrefix(p), tx)

\* process_object()
process_object(w, m, tx) ==
  IF m.type # "METHOD_CALL" THEN Ret(w, 0, "")
  ELSE IF m.path = NULL THEN Ret(w, 0, "")
  ELSE IF DOMAIN w.nodes = {} THEN Ret(w, 0, "")
  ELSE object_find_and_run(w, m.path, tx)

\* process_running() after process_message() returned 0, answering the
\* method call although the caller asked for the message.
unhandled_replies_anyway(w, tx) ==
  LET e == sd_bus_reply_method_errorf(w, w.cur.m, UnknownObject, tx)
  IN  IF w.cur.m.type # "METHOD_CALL"
      THEN IF w.cur.ret THEN [Ret(w, 1, "returned") EXCEPT !.out = w.cur.m]
           ELSE Ret(w, 1, "unhandled")
      ELSE IF e.r < 0 THEN Ret(e.w, e.r, "unhandled")
      ELSE IF w.cur.ret THEN [Ret(e.w, 1, "returned") EXCEPT !.out = w.cur.m]
      ELSE Ret(e.w, 1, "unhandled")

\* process_running() after process_message() returned 0 (lines 2930-2950):
\* the message goes to the caller that asked for it, a method call gets the
\* UnknownObject error otherwise.
unhandled(w, tx) ==
  IF w.cur.ret THEN [Ret(w, 1, "returned") EXCEPT !.out = w.cur.m]
  ELSE IF w.cur.m.type # "METHOD_CALL" THEN Ret(w, 1, "unhandled")
  ELSE Ended(sd_bus_reply_method_errorf(w, w.cur.m, UnknownObject, tx),
             "unhandled")

\* process_message() after process_object().
after_object(res, tx) ==
  IF res.pending \/ res.w.pc = "stuck" THEN res
  ELSE IF res.r # 0 THEN res
  ELSE unhandled(res.w, tx)

\* process_message() after process_builtin().
after_builtin(b, tx) ==
  IF b.r # 0 THEN Ret(b.w, b.r, "builtin")
  ELSE after_object(process_object(b.w, b.w.cur.m, tx), tx)

\* process_message() after process_filter().
after_filter(res, tx) ==
  IF res.pending THEN res
  ELSE IF res.r # 0 THEN Ret(res.w, res.r, "filter")
  ELSE IF process_match(res.w, res.w.cur.m) # 0
  THEN Ret(res.w, process_match(res.w, res.w.cur.m), "match")
  ELSE after_builtin(process_builtin(res.w, res.w.cur.m, tx), tx)

\* process_message() going on to the filters after a reply callback that
\* handled the message.
after_reply_goes_on(res, tx) ==
  IF res.pending THEN res
  ELSE IF res.r < 0 THEN Ret(res.w, res.r, "reply")
  ELSE after_filter(process_filter(res.w), tx)

\* process_message() after process_reply().
after_reply(res, tx) ==
  IF res.pending THEN res
  ELSE IF res.r # 0 THEN Ret(res.w, res.r, "reply")
  ELSE after_filter(process_filter(res.w), tx)

\* process_message()
process_message(w, m, env) ==
  LET w1 == [w EXCEPT !.iteration_counter = @ + 1, !.cur.m = m,
                      !.events.objects = <<>>]
  IN  IF process_hello(w1, m) # 0 THEN Ret(w1, process_hello(w1, m), "hello")
      ELSE after_reply(process_reply(w1, m, env), env)

\* dispatch_rqueue(): rd is what bus_socket_read_message() or
\* bus_kernel_read_message() finds on the transport in this call: an error,
\* nothing, a part of a message, or the message rd.m.
dispatch_rqueue(w, rd) ==
  IF Len(w.rqueue) > 0
  THEN [w |-> [w EXCEPT !.rqueue = Tail(@)], r |-> 1, m |-> w.rqueue[1]]
  ELSE IF rd.kind = "err"
  THEN [w |-> sd_bus_close(w), r |-> 0 - errno.EIO, m |-> NoMsg]
  ELSE IF rd.kind = "msg"
  THEN [w |-> [w EXCEPT !.nread = @ + 1], r |-> 1, m |-> rd.m]
  ELSE IF rd.kind = "partial"
  THEN [w |-> w, r |-> 1, m |-> NoMsg]
  ELSE [w |-> w, r |-> 0, m |-> NoMsg]

\* process_running() reading and dispatching a message before it looks at
\* the deadlines.
process_running_reads_first(w, env, rd, c) ==
  LET d == dispatch_wqueue(w, env)
      q == dispatch_rqueue(d.w, rd)
      t == process_timeout(q.w, c, env)
  IN  IF d.r # 0 THEN Ret(d.w, d.r, "wqueue")
      ELSE IF q.r < 0 THEN Ret(q.w, q.r, "rqueue")
      ELSE IF q.m # NoMsg THEN process_message(q.w, q.m, env)
      ELSE IF t.pending \/ t.r # 0 THEN t
      ELSE Ret(q.w, q.r, "rqueue")

\* process_running() going on to read after it wrote, and returning what the
\* read returns.
process_running_forgets_write(w, env, rd, c) ==
  LET t == process_timeout(w, c, env)
      d == dispatch_wqueue(t.w, env)
      q == dispatch_rqueue(d.w, rd)
  IN  IF t.pending THEN t
      ELSE IF t.r # 0 THEN t
      ELSE IF d.r < 0 THEN Ret(d.w, d.r, "wqueue")
      ELSE IF q.r < 0 \/ q.m = NoMsg THEN Ret(q.w, q.r, "rqueue")
      ELSE process_message(q.w, q.m, env)

\* process_running()
process_running(w, env, rd, c) ==
  LET t == process_timeout(w, c, env)
      d == dispatch_wqueue(t.w, env)
      q == dispatch_rqueue(d.w, rd)
  IN  IF t.pending THEN t
      ELSE IF t.r # 0 THEN t
      ELSE IF d.r # 0 THEN Ret(d.w, d.r, "wqueue")
      ELSE IF q.r < 0 \/ q.m = NoMsg THEN Ret(q.w, q.r, "rqueue")
      ELSE process_message(q.w, q.m, env)

\* sd_bus_process() from `bus->processing = true` to its return, or to the
\* callback the iteration is suspended in.
Finish(res) ==
  IF res.pending \/ res.w.pc = "stuck" THEN res
  ELSE [Ret([res.w EXCEPT !.processing = FALSE, !.pc = "idle", !.cur = NoCur],
            res.r, res.stage) EXCEPT !.out = res.out]

\* sd_bus_process() without the test of bus->processing.
sd_bus_process_reentrant(w, env, rd, c) ==
  IF bus_pid_changed(w) THEN Ret(w, 0 - errno.ECHILD, "")
  ELSE IF w.state \in {"UNSET", "CLOSED"}
  THEN Ret(w, 0 - errno.ENOTCONN, "")
  ELSE IF w.state \in {"RUNNING", "HELLO"}
  THEN Finish(process_running(
                [w EXCEPT !.processing = TRUE], env, rd, c))
  ELSE IF w.state = "OPENING"
  THEN LET r == bus_socket_process_opening(w, rd.tr)
       IN  Ret(r.w, r.r, "")
  ELSE LET r == bus_socket_process_authenticating(w, Outcome(rd.tr))
       IN  Ret(r.w, r.r, "")

\* sd_bus_process(bus, ret): want says that ret is not NULL.
sd_bus_process_ret(w, want, env, rd, c) ==
  IF bus_pid_changed(w) THEN Ret(w, 0 - errno.ECHILD, "")
  ELSE IF w.processing THEN Ret(w, 0 - errno.EBUSY, "")
  ELSE IF w.state \in {"UNSET", "CLOSED"}
  THEN Ret(w, 0 - errno.ENOTCONN, "")
  ELSE IF w.state \in {"RUNNING", "HELLO"}
  THEN Finish(process_running(
                [w EXCEPT !.processing = TRUE, !.cur.ret = want], env, rd, c))
  ELSE IF w.state = "OPENING"
  THEN LET r == bus_socket_process_opening(w, rd.tr)
       IN  Ret(r.w, r.r, "")
  ELSE LET r == bus_socket_process_authenticating(w, Outcome(rd.tr))
       IN  Ret(r.w, r.r, "")

\* sd_bus_process(bus, NULL)
sd_bus_process(w, env, rd, c) == sd_bus_process_ret(w, FALSE, env, rd, c)

\* `l = l->callbacks_next` of LIST_FOREACH in process_filter(), after the
\* callback of l returned 0: the next filter_callback, and whether l had been
\* unlinked and freed when the field was read (g is what the read yields then).
callbacks_next(w, l, g) ==
  IF FilterIndex(w, l) # 0 THEN [next |-> FilterNext(w, l), freed |-> FALSE]
  ELSE [next |-> g, freed |-> TRUE]

\* The callback sd_bus_process() is suspended in returns rv; g is what a read
\* of l->callbacks_next yields when the callback freed l. A node callback
\* that returns 0 is followed by c->callbacks_next, which is a read of freed
\* memory when the callback removed its own registration.
callback_resume(w, rv, g, tx) ==
  LET w0 == [w EXCEPT !.pc = "idle"]
      p == w.cur.obj.p
      k == w.cur.obj.k
  IN  IF w.pc = "timeout_cb"
      THEN Ret(w0, IF rv < 0 THEN rv ELSE 1, "timeout")
      ELSE IF w.pc = "reply_cb"
      THEN after_reply(Ret(w0, rv, "reply"), tx)
      ELSE IF w.pc \in {"object_cb", "method_cb"} /\ rv # 0
      THEN Ret(w0, rv, "object")
      ELSE IF w.pc = "object_cb"
      THEN IF \/ k = 0 \/ p \notin DOMAIN w0.nodes
              \/ k > Len(w0.nodes[p].callbacks)
           THEN Pend([w0 EXCEPT !.pc = "ub"])
           ELSE after_object(node_callbacks_run(w0, p, k + 1, tx), tx)
      ELSE IF w.pc = "method_cb"
      THEN after_object(object_properties(w0, p, tx), tx)
      ELSE IF rv # 0 THEN Ret(w0, rv, "filter")
      ELSE after_filter(filter_for(w0, callbacks_next(w0, w.cur.l, g).next),
                        tx)

\* The iteration goes on from the callback to the return of sd_bus_process()
\* or to the next callback.
callback_return(w, rv, g, tx) == Finish(callback_resume(w, rv, g, tx))

\* sd_bus_add_filter()
sd_bus_add_filter(w, callback) ==
  IF bus_pid_changed(w) THEN Res(w, 0 - errno.ECHILD)
  ELSE Res([w EXCEPT !.events.filters = Append(@, <<>>),
                     !.filter_callbacks_modified = TRUE,
                     !.filter_callbacks =
                       LIST_PREPEND(@, [id |-> Len(w.events.filters) + 1,
                                        callback |-> callback,
                                        last_iteration |-> 0])], 0)

\* sd_bus_remove_filter()
sd_bus_remove_filter(w, callback) ==
  LET hit == {k \in 1..Len(w.filter_callbacks) :
                w.filter_callbacks[k].callback = callback}
      k == CHOOSE k \in hit : \A j \in hit : k <= j
  IN  IF bus_pid_changed(w) THEN Res(w, 0 - errno.ECHILD)
      ELSE IF hit = {} THEN Res(w, 0)
      ELSE Res([w EXCEPT !.filter_callbacks_modified = TRUE,
                         !.filter_callbacks = LIST_REMOVE(@, k)], 1)

(***************************************************************************)
(* The calls that block: sd_bus_flush() and                                *)
(* sd_bus_send_with_reply_and_block().  The thread sits in ppoll()         *)
(* (cur.inner) between two turns of their loops.                           *)
(***************************************************************************)
BUS_RQUEUE_MAX == 2
   \* 128 in bus-internal.h, scaled down

\* bus_ensure_running() of a connection that is not in the handshake.
bus_ensure_running(w) ==
  IF w.state \in {"UNSET", "CLOSED"} THEN 0 - errno.ENOTCONN ELSE 1

\* The blocking call returns r, or waits in ppoll().
Leaves(w, r) == [w |-> [w EXCEPT !.cur.inner = ""], r |-> r, pending |-> FALSE]
Waits(w, inner) ==
  [w |-> [w EXCEPT !.cur.inner = inner], r |-> 0, pending |-> TRUE]

\* sd_bus_flush(): one turn of the for (;;), up to bus_poll().
flush_loop(w, env) ==
  LET d == dispatch_wqueue(w, env)
  IN  IF d.r < 0 THEN Leaves(d.w, d.r)
      ELSE IF Len(d.w.wqueue) <= 0 THEN Leaves(d.w, 0)
      ELSE Waits(d.w, "flush")

\* sd_bus_flush() up to its return or its first bus_poll().
sd_bus_flush(w, env) ==
  IF ~BUS_IS_OPEN(w.state) THEN Leaves(w, 0 - errno.ENOTCONN)
  ELSE IF bus_pid_changed(w) THEN Leaves(w, 0 - errno.ECHILD)
  ELSE IF bus_ensure_running(w) < 0
  THEN Leaves(w, bus_ensure_running(w))
  ELSE IF Len(w.wqueue) <= 0 THEN Leaves(w, 0)
  ELSE flush_loop(w, env)

\* bus_poll() returns in sd_bus_flush(): failed says that ppoll() failed.
flush_poll(w, failed, env) ==
  IF failed THEN Leaves(w, 0 - errno.EINTR)
  ELSE flush_loop(w, env)

\* sd_bus_send_with_reply_and_block() up to the for (;;).
sd_bus_send_with_reply_and_block(w, m, usec, env) ==
  LET snd == sd_bus_send(w, m, TRUE, env)
  IN  IF ~BUS_IS_OPEN(w.state) THEN Leaves(w, 0 - errno.ENOTCONN)
      ELSE IF w.msgs[m].type # "METHOD_CALL"
      THEN Leaves(w, 0 - errno.EINVAL)
      ELSE IF w.msgs[m].no_reply_expected
      THEN Leaves(w, 0 - errno.EINVAL)
      ELSE IF bus_pid_changed(w) THEN Leaves(w, 0 - errno.ECHILD)
      ELSE IF bus_ensure_running(w) < 0
      THEN Leaves(w, bus_ensure_running(w))
      ELSE IF snd.r < 0 THEN Leaves(snd.w, snd.r)
      ELSE Waits([snd.w EXCEPT !.cur.serial = snd.w.msgs[m].serial,
                               !.cur.timeout = calc_elapse(snd.w, usec),
                               !.cur.room = FALSE], "block")

\* The loop of the blocking call taking every message with the awaited reply
\* serial for the reply.
block_loop_any_match(w, rd, failed, env) ==
  LET incoming == rd.m
      d == dispatch_wqueue(w, env)
  IN  IF ~w.cur.room /\ Len(w.rqueue) >= BUS_RQUEUE_MAX
      THEN Leaves(w, 0 - errno.ENOBUFS)
      ELSE IF ~w.cur.room /\ env.oom = "realloc"
      THEN Leaves(w, 0 - errno.ENOMEM)
      ELSE IF rd.kind = "err"
      THEN Leaves([w EXCEPT !.cur.room = TRUE], 0 - errno.EIO)
      ELSE IF rd.kind = "msg"
      THEN IF incoming.reply_serial = w.cur.serial
           THEN Leaves(w, 0)
           ELSE Waits([w EXCEPT !.nread = @ + 1,
                                !.rqueue = Append(@, incoming),
                                !.cur.room = FALSE], "block")
      ELSE IF rd.kind = "partial"
      THEN Waits([w EXCEPT !.cur.room = TRUE], "block")
      ELSE IF w.cur.timeout > 0 /\ w.now >= w.cur.timeout
      THEN Leaves(w, 0 - errno.ETIMEDOUT)
      ELSE IF failed THEN Leaves(w, 0 - errno.EINTR)
      ELSE IF d.r < 0 THEN Leaves(d.w, d.r)
      ELSE Waits([d.w EXCEPT !.cur.room = TRUE], "block")

\* The loop of the blocking call putting a message that is not the reply at
\* the head of rqueue.
block_loop_queue_jump(w, rd, failed, env) ==
  LET incoming == rd.m
      d == dispatch_wqueue(w, env)
  IN  IF ~w.cur.room /\ Len(w.rqueue) >= BUS_RQUEUE_MAX
      THEN Leaves(w, 0 - errno.ENOBUFS)
      ELSE IF ~w.cur.room /\ env.oom = "realloc"
      THEN Leaves(w, 0 - errno.ENOMEM)
      ELSE IF rd.kind = "err"
      THEN Leaves([w EXCEPT !.cur.room = TRUE], 0 - errno.EIO)
      ELSE IF rd.kind = "msg"
      THEN IF incoming.reply_serial = w.cur.serial
           THEN IF incoming.type = "METHOD_RETURN" THEN Leaves(w, 0)
                ELSE IF incoming.type = "METHOD_ERROR"
                THEN IF env.oom = "strdup" THEN Leaves(w, 0 - errno.ENOMEM)
                     ELSE Leaves(w, bus_error_to_errno(incoming.error))
                ELSE Leaves(w, 0 - errno.EIO)
           ELSE Waits([w EXCEPT !.nread = @ + 1,
                                !.rqueue = <<incoming>> \o @,
                                !.cur.room = FALSE], "block")
      ELSE IF rd.kind = "partial"
      THEN Waits([w EXCEPT !.cur.room = TRUE], "block")
      ELSE IF w.cur.timeout > 0 /\ w.now >= w.cur.timeout
      THEN Leaves(w, 0 - errno.ETIMEDOUT)
      ELSE IF failed THEN Leaves(w, 0 - errno.EINTR)
      ELSE IF d.r < 0 THEN Leaves(d.w, d.r)
      ELSE Waits([d.w EXCEPT !.cur.room = TRUE], "block")

\* One turn of the for (;;) of sd_bus_send_with_reply_and_block(): rd is what
\* the transport has to read, failed says that ppoll() failed; env.oom =
\* "realloc": the realloc() of rqueue fails, "strdup": sd_bus_error_copy()
\* fails.
block_loop(w, rd, failed, env) ==
  LET incoming == rd.m
      d == dispatch_wqueue(w, env)
  IN  IF ~w.cur.room /\ Len(w.rqueue) >= BUS_RQUEUE_MAX
      THEN Leaves(w, 0 - errno.ENOBUFS)
      ELSE IF ~w.cur.room /\ env.oom = "realloc"
      THEN Leaves(w, 0 - errno.ENOMEM)
      ELSE IF rd.kind = "err"
      THEN Leaves([w EXCEPT !.cur.room = TRUE], 0 - errno.EIO)
      ELSE IF rd.kind = "msg"
      THEN IF incoming.reply_serial = w.cur.serial
           THEN IF incoming.type = "METHOD_RETURN" THEN Leaves(w, 0)
                ELSE IF incoming.type = "METHOD_ERROR"
                THEN IF env.oom = "strdup" THEN Leaves(w, 0 - errno.ENOMEM)
                     ELSE Leaves(w, bus_error_to_errno(incoming.error))
                ELSE Leaves(w, 0 - errno.EIO)
           ELSE Waits([w EXCEPT !.nread = @ + 1,
                                !.rqueue = Append(@, incoming),
                                !.cur.room = FALSE], "block")
      ELSE IF rd.kind = "partial"
      THEN Waits([w EXCEPT !.cur.room = TRUE], "block")
      ELSE IF w.cur.timeout > 0 /\ w.now >= w.cur.timeout
      THEN Leaves(w, 0 - errno.ETIMEDOUT)
      ELSE IF failed THEN Leaves(w, 0 - errno.EINTR)
      ELSE IF d.r < 0 THEN Leaves(d.w, d.r)
      ELSE Waits([d.w EXCEPT !.cur.room = TRUE], "block")

(***************************************************************************)
(* PropertiesChanged signals.  names is the strv of property names; cb     *)
(* says what the application's property getter does (get) and how the      *)
(* append of line 4045 ends (append).                                      *)
(***************************************************************************)
interface_name_is_valid(interface) == interface \in Interfaces

\* The STRV_FOREACH of emit_properties_changed_on_interface() from names[k]
\* on: 0 when every property was appended, the error otherwise. The append
\* at line 4045 passes *n, a struct node, where the format wants a string:
\* what it does is not defined, cb.append is the outcome.
RECURSIVE emit_properties(_, _, _, _, _, _, _)
emit_properties(w, prefix, interface, c, names, k, cb) ==
  IF k > Len(names) THEN Res(w, 0)
  ELSE
    LET key == [path |-> prefix, interface |-> interface, member |-> names[k]]
        found == {v \in w.vtable_properties : v.key = key}
        v == CHOOSE x \in found : TRUE
        flags == VtableEntry(v).flags
    IN  IF found = {} THEN Res(w, 0 - errno.ENOENT)
        ELSE IF v.parent # c THEN Res([w EXCEPT !.pc = "stuck"], 0)
        ELSE IF "EMITS_CHANGE" \notin flags THEN Res(w, 0 - errno.EDOM)
        ELSE IF "INVALIDATE_ONLY" \in flags
        THEN emit_properties(w, prefix, interface, c, names, k + 1, cb)
        ELSE IF cb.append = "crash" THEN Res([w EXCEPT !.pc = "ub"], 0)
        ELSE IF cb.append = "err" THEN Res(w, 0 - errno.EINVAL)
        ELSE IF cb.get = "fail" THEN Res(w, 0 - errno.EIO)
        ELSE IF cb.get = "error"
        THEN Res(w, bus_error_to_errno("org.freedesktop.DBus.Error.InvalidArgs"))
        ELSE emit_properties(w, prefix, interface, c, names, k + 1, cb)

\* emit_properties_changed_on_interface(): 0 when no vtable of the node at
\* prefix applies, 1 when the signal was sent. fb is require_fallback;
\* tx.oom = "message":
\* sd_bus_message_new_signal() fails.
emit_properties_changed_on_interface(w, prefix, path, interface, fb, names, tx, cb) ==
  IF prefix \notin DOMAIN w.nodes THEN Res(w, 0)
  ELSE
    LET k == First(w.nodes[prefix].vtables,
                   LAMBDA i :
                     /\ ~(fb /\ ~i.is_fallback)
                     /\ \/ i.interface = interface
                        \/ node_vtable_get_userdata(w, path, i) > 0)
        c == w.nodes[prefix].vtables[k]
        props == emit_properties(w, prefix, interface, c, names, 1, cb)
        m == Len(w.msgs) + 1
        w1 == [w EXCEPT !.msgs =
                 Append(@, [type |-> "SIGNAL", sealed |-> FALSE, serial |-> 0,
                            no_reply_expected |-> FALSE,
                            dont_send |-> FALSE])]
        snd == sd_bus_send(w1, m, FALSE, tx)
    IN  IF k = 0 THEN Res(w, 0)
        ELSE IF tx.oom = "message" THEN Res(w, 0 - errno.ENOMEM)
        ELSE IF props.r < 0 \/ props.w.pc \in {"stuck", "ub"} THEN props
        ELSE IF snd.r < 0
        THEN \* the message is freed on the way out
             Res([snd.w EXCEPT !.msgs = SubSeq(@, 1, Len(w.msgs))], snd.r)
        ELSE Res(snd.w, 1)

\* The for (;;) of sd_bus_emit_properties_changed_strv() over the prefixes
\* of path, p being the prefix tried last.
RECURSIVE emit_prefixes(_, _, _, _, _, _, _)
emit_prefixes(w, p, path, interface, names, tx, cb) ==
  IF p = ROOT THEN Res(w, 0 - errno.ENOENT)
  ELSE
    LET e == strrchr_slash(p)
        p1 == IF e = 0 THEN ROOT ELSE SubSeq(p, 1, e)
        r == emit_properties_changed_on_interface(w, p1, path, interface,
                                                  TRUE, names, tx, cb)
    IN  IF r.r # 0 \/ r.w.pc \in {"stuck", "ub"} THEN r
        ELSE emit_prefixes(w, p1, path, interface, names, tx, cb)

\* sd_bus_emit_properties_changed_strv(): it tests its arguments and not the
\* pid; the sd_bus_send() at the end of the chain does.
sd_bus_emit_properties_changed_strv(w, path, interface, names, tx, cb) ==
  LET r == emit_properties_changed_on_interface(w, path, path, interface,
                                                FALSE, names, tx, cb)
  IN  IF ~object_path_is_valid(path) THEN Res(w, 0 - errno.EINVAL)
      ELSE IF ~interface_name_is_valid(interface)
      THEN Res(w, 0 - errno.EINVAL)
      ELSE IF r.r # 0 \/ r.w.pc \in {"stuck", "ub"} THEN r
      ELSE IF Len(path) > 1
      THEN emit_prefixes(w, path, path, interface, names, tx, cb)
      ELSE Res(w, 0 - errno.ENOENT)

(***************************************************************************)
(* What the event loop asks the connection: descriptor, events, timeout,   *)
(* and sd_bus_wait().  None of them changes the connection.                *)
(***************************************************************************)
POLLIN == 1
POLLOUT == 4

\* sd_bus_get_fd()
sd_bus_get_fd(w) ==
  IF ~BUS_IS_OPEN(w.state) THEN 0 - errno.ENOTCONN
  ELSE IF w.conf.input_fd # w.conf.output_fd THEN 0 - errno.EPERM
  ELSE IF bus_pid_changed(w) THEN 0 - errno.ECHILD
  ELSE w.conf.input_fd

\* sd_bus_get_events() that takes the queues into account only in Running.
sd_bus_get_events_running_only(w, auth_needs_write) ==
  IF ~BUS_IS_OPEN(w.state) THEN 0 - errno.ENOTCONN
  ELSE IF bus_pid_changed(w) THEN 0 - errno.ECHILD
  ELSE IF w.state = "OPENING" THEN POLLOUT
  ELSE IF w.state = "AUTHENTICATING"
  THEN (IF auth_needs_write THEN POLLOUT ELSE 0) + POLLIN
  ELSE IF w.state = "RUNNING"
  THEN (IF Len(w.rqueue) <= 0 THEN POLLIN ELSE 0)
       + (IF Len(w.wqueue) > 0 THEN POLLOUT ELSE 0)
  ELSE 0

\* sd_bus_get_events(); auth_needs_write is what
\* bus_socket_auth_needs_write() says.
sd_bus_get_events(w, auth_needs_write) ==
  IF ~BUS_IS_OPEN(w.state) THEN 0 - errno.ENOTCONN
  ELSE IF bus_pid_changed(w) THEN 0 - errno.ECHILD
  ELSE IF w.state = "OPENING" THEN POLLOUT
  ELSE IF w.state = "AUTHENTICATING"
  THEN (IF auth_needs_write THEN POLLOUT ELSE 0) + POLLIN
  ELSE IF w.state \in {"RUNNING", "HELLO"}
  THEN (IF Len(w.rqueue) <= 0 THEN POLLIN ELSE 0)
       + (IF Len(w.wqueue) > 0 THEN POLLOUT ELSE 0)
  ELSE 0

\* sd_bus_get_timeout(bus, timeout_usec): given says that timeout_usec is not
\* NULL, auth_timeout is bus->auth_timeout; usec is what it stores.
sd_bus_get_timeout(w, given, auth_timeout) ==
  IF ~given THEN [r |-> 0 - errno.EINVAL, usec |-> Infinite]
  ELSE IF ~BUS_IS_OPEN(w.state) THEN [r |-> 0 - errno.ENOTCONN, usec |-> Infinite]
  ELSE IF bus_pid_changed(w) THEN [r |-> 0 - errno.ECHILD, usec |-> Infinite]
  ELSE IF w.state = "AUTHENTICATING" THEN [r |-> 1, usec |-> auth_timeout]
  ELSE IF w.state \notin {"RUNNING", "HELLO"} THEN [r |-> 0, usec |-> Infinite]
  ELSE IF w.reply_callbacks_prioq = {} THEN [r |-> 0, usec |-> Infinite]
  ELSE [r |-> 1,
        usec |-> (CHOOSE c \in prioq_peek(w.reply_callbacks_prioq) : TRUE).timeout]

\* bus_poll(): ready is what ppoll() returns, -1 for a failure (EINTR).
bus_poll(w, ready) ==
  IF ~BUS_IS_OPEN(w.state) THEN 0 - errno.ENOTCONN
  ELSE IF sd_bus_get_events(w, FALSE) < 0 THEN sd_bus_get_events(w, FALSE)
  ELSE IF sd_bus_get_timeout(w, TRUE, 0).r < 0
  THEN sd_bus_get_timeout(w, TRUE, 0).r
  ELSE IF ready < 0 THEN 0 - errno.EINTR
  ELSE IF ready > 0 THEN 1 ELSE 0

\* sd_bus_wait() answering like sd_bus_get_events() for a connection that is
\* not open.
sd_bus_wait_any_state(w, ready) ==
  IF bus_pid_changed(w) THEN 0 - errno.ECHILD
  ELSE IF Len(w.rqueue) > 0 THEN 0
  ELSE IF ~BUS_IS_OPEN(w.state) THEN 0
  ELSE bus_poll(w, ready)

\* sd_bus_wait()
sd_bus_wait(w, ready) ==
  IF ~BUS_IS_OPEN(w.state) THEN 0 - errno.ENOTCONN
  ELSE IF bus_pid_changed(w) THEN 0 - errno.ECHILD
  ELSE IF Len(w.rqueue) > 0 THEN 0
  ELSE bus_poll(w, ready)

(***************************************************************************)
(* The actions of the connection: the calls of the application (from its   *)
(* main loop or from inside a callback), the returns of its callbacks, the *)
(* peer and the clock.                                                     *)
(***************************************************************************)
Usecs == {Infinite, 0, 1}
Replies ==
  [type : {"METHOD_RETURN"}, reply_serial : 1..MaxCalls, error : {""},
   body : {<<>>}]
  \cup [type : {"METHOD_ERROR"}, reply_serial : 1..MaxCalls,
        error : {"org.example.Error"}, body : {<<>>}]
Signals == [type : {"SIGNAL"}, reply_serial : {0}, error : {""}, body : {<<>>}]
PeerMessages == Replies \cup Signals

\* What a read of the transport can find, the peer sending messages of msgs.
Reads(msgs_) ==
  [kind : {"err", "none", "partial"}, m : {NoMsg}]
  \cup (IF nread < MaxInbound THEN [kind : {"msg"}, m : msgs_] ELSE {})

\* The environments that make a difference to a call that writes at most
\* `most` bytes, if it writes at all, and that returns without writing when
\* one of the allocations ooms fails.
WriteEnvs(writes, most, ooms) ==
  [room : IF writes THEN 0..most ELSE {0},
   then : IF writes THEN {"eagain", "err"} ELSE {"eagain"}, oom : {"none"}]
  \cup [room : {0}, then : {"eagain"}, oom : ooms]

\* The messages the application passes to a call: one it has sent before, or
\* a new one (new messages are alike, so it takes the first).
Sendable ==
  {m \in 1..MaxMsgs : msgs[m].sealed \/ \A k \in 1..(m - 1) : msgs[k].sealed}

Send ==
  /\ Callable /\ Len(sendlog) < MaxSends
  /\ \E m \in Sendable, want_serial \in BOOLEAN,
        env \in WriteEnvs(Len(wqueue) = 0, MsgSize,
                          IF Len(wqueue) = 0 THEN {} ELSE {"realloc"}) :
       LET res == sd_bus_send(World, m, want_serial, env)
       IN  Becomes(res.w)

\* The environments of a call whose socket takes the whole message or fails.
Unblocked(ooms) ==
  [room : {MsgSize}, then : {"eagain"}, oom : {"none"} \cup ooms]
  \cup [room : {0}, then : {"err"}, oom : {"none"}]

\* sd_bus_send_with_reply() over a socket that does not block.
SendWithReply ==
  /\ Callable /\ Len(sendlog) < MaxSends /\ Len(events.calls) < MaxCalls
  /\ \E m \in Sendable, usec \in Usecs, want_serial \in BOOLEAN,
        env \in Unblocked({"new0", "hashmap_put", "prioq_put"}) :
       /\ calc_elapse(World, usec) <= MaxTime
       /\ LET res == sd_bus_send_with_reply(World, m, "callback", usec, want_serial, env)
          IN  Becomes(res.w)

Cancel ==
  /\ Callable
  /\ \E key \in 0..MaxMsgs :
       LET res == sd_bus_send_with_reply_cancel(World, key)
       IN  Becomes(res.w)

\* sd_bus_process(), the peer sending messages of msgs_.
ProcessWith(msgs_) ==
  /\ Callable
  /\ \E env \in WriteEnvs(Len(wqueue) > 0, MsgSize + 1,
                          IF reply_callbacks_prioq = {} THEN {}
                          ELSE {"message"}),
        rd \in Reads(msgs_),
        c \in IF reply_callbacks_prioq = {} THEN {NoCallback}
              ELSE prioq_peek(reply_callbacks_prioq) :
       Becomes(sd_bus_process(World, env, rd, c).w)

\* The environments of the replies a dispatch sends: the socket takes the
\* reply or fails, an allocation fails, the machine id cannot be read, a
\* property's getter or setter fails or sets an error.
DispatchEnvs ==
  [room : {MsgSize}, then : {"eagain"},
   oom : {"none", "message", "strdup", "machine_id"}, prop : {"ok"}]
  \cup [room : {MsgSize}, then : {"eagain"}, oom : {"none"},
        prop : {"fail", "error"}]
  \cup [room : {0}, then : {"err"}, oom : {"none"}, prop : {"ok"}]

\* A message that is no method call is answered with no reply: the environment
\* of the replies plays no part in its dispatch.
NoReply == [room |-> 0, then |-> "eagain", oom |-> "none", prop |-> "ok"]

CallbackReturn ==
  /\ Callable
  /\ pc \in {"timeout_cb", "reply_cb", "filter_cb", "object_cb", "method_cb"}
  /\ \E rv \in {0 - errno.EIO, 0, 1},
        g \in IF pc = "filter_cb" /\ FilterIndex(World, cur.l) = 0
              THEN 0..MaxFilters ELSE {0},
        env \in IF cur.m.type = "METHOD_CALL" THEN DispatchEnvs
                ELSE {NoReply} :
       Becomes(callback_return(World, rv, g, env).w)

Flush ==
  /\ Callable /\ state \in {"UNSET", "CLOSED", "RUNNING"}
  /\ \E env \in WriteEnvs(Len(wqueue) > 0, MsgSize + 1, {}) :
       Becomes(sd_bus_flush(World, env).w)

FlushPoll ==
  /\ cur.inner = "flush"
  /\ \E failed \in BOOLEAN, env \in WriteEnvs(TRUE, MsgSize + 1, {}) :
       Becomes(flush_poll(World, failed, env).w)

\* The blocking call without a timeout.
SendAndBlock ==
  /\ Callable /\ state \in {"UNSET", "CLOSED", "RUNNING"}
  /\ Len(sendlog) < MaxSends
  /\ \E m \in Sendable, usec \in {Infinite},
        env \in WriteEnvs(Len(wqueue) = 0, MsgSize,
                          IF Len(wqueue) = 0 THEN {} ELSE {"realloc"}) :
       /\ calc_elapse(World, usec) <= MaxTime
       /\ Becomes(sd_bus_send_with_reply_and_block(World, m, usec, env).w)

\* One turn of the blocking call's loop, the peer sending nothing but the
\* reply to the call.
BlockLoop ==
  /\ cur.inner = "block"
  /\ \E rd \in Reads({})
               \cup [kind : {"msg"},
                     m : {m \in PeerMessages : /\ m.type = "METHOD_RETURN"
                                               /\ m.reply_serial = cur.serial}],
        failed \in BOOLEAN,
        env \in WriteEnvs(Len(wqueue) > 0, MsgSize + 1,
                          IF cur.room THEN {} ELSE {"realloc"}) :
       Becomes(block_loop(World, rd, failed, env).w)

AddFilter ==
  /\ Callable /\ Len(events.filters) < MaxFilters
  /\ \E callback \in Handlers :
       LET res == sd_bus_add_filter(World, callback)
       IN  Becomes(res.w)

RemoveFilter ==
  /\ Callable
  /\ \E callback \in Handlers :
       LET res == sd_bus_remove_filter(World, callback)
       IN  Becomes(res.w)

Close ==
  /\ Callable
  /\ Becomes(sd_bus_close(World))

\* fork(): from here on the connection is the child's.
Fork ==
  /\ Callable /\ pid = conf.original_pid
  /\ Becomes([World EXCEPT !.pid = @ + 1])

\* CLOCK_MONOTONIC advances.
Tick ==
  /\ now < MaxTime
  /\ Becomes([World EXCEPT !.now = @ + 1])

\* A connection that is not a bus client, after sd_bus_start() and the
\* handshake: bus_start_running() made it BUS_RUNNING.
Running(kernel) == [NewBus EXCEPT !.state = "RUNNING", !.is_kernel = kernel]

InitSend == \E kernel \in BOOLEAN : StartsAs(Running(kernel))
\* A process call of a connection whose peer sends nothing but the replies
\* the blocking call reads.
ProcessWrites == ProcessWith({})

NextSend ==
  \/ Send \/ ProcessWrites \/ Flush \/ FlushPoll \/ SendAndBlock \/ BlockLoop
SpecSend == InitSend /\ [][NextSend]_vars

InitReply == StartsAs(Running(FALSE))
\* A process call of a connection whose peer sends replies.
ProcessReplies == ProcessWith(Replies)

NextReply ==
  \/ SendWithReply \/ Cancel \/ ProcessReplies \/ CallbackReturn \/ Tick
  \/ Close
SpecReply == InitReply /\ [][NextReply]_vars

\* The main loop keeps calling sd_bus_process(), its allocations succeed in
\* the end, the callbacks return and the clock advances.
ProcessTimeouts ==
  /\ Callable /\ reply_callbacks_prioq # {}
  /\ \E c \in prioq_peek(reply_callbacks_prioq) :
       Becomes(sd_bus_process(World,
                              [room |-> 0, then |-> "eagain", oom |-> "none"],
                              [kind |-> "none", m |-> NoMsg], c).w)

\* sd_bus_send_with_reply() with a new message.
SendCall ==
  /\ Callable /\ Len(events.calls) < MaxCalls
  /\ \E m \in {m \in Sendable : ~msgs[m].sealed}, usec \in Usecs,
        env \in Unblocked({"prioq_put"}) :
       /\ calc_elapse(World, usec) <= MaxTime
       /\ Becomes(sd_bus_send_with_reply(World, m, "callback", usec, TRUE, env).w)

NextReplyLive ==
  \/ SendCall \/ Cancel \/ ProcessReplies \/ CallbackReturn \/ Tick \/ Close
SpecReplyLive ==
  /\ InitReply /\ [][NextReplyLive]_vars
  /\ WF_vars(Tick) /\ WF_vars(ProcessTimeouts) /\ WF_vars(CallbackReturn)

InitFilter == StartsAs(Running(FALSE))
\* A process call of a connection whose peer sends signals.
ProcessSignals == ProcessWith(Signals)

NextFilter ==
  \/ AddFilter \/ RemoveFilter \/ ProcessSignals \/ CallbackReturn
SpecFilter == InitFilter /\ [][NextFilter]_vars

\* A running connection with calls in flight, whose program may close it and
\* may fork.
NextLife ==
  \/ SendCall \/ Cancel \/ ProcessReplies \/ CallbackReturn \/ Close \/ Fork
SpecLife == InitReply /\ [][NextLife]_vars

(***************************************************************************)
(* The life of a connection from sd_bus_new(): configuration, start,       *)
(* handshake, Hello, close.                                                *)
(***************************************************************************)
MaxAddress == 2
   \* entries of an address
Addresses ==
  {<<>>, <<"unix">>, <<"kernel">>, <<"bad">>, <<"skip", "unixexec">>,
   <<"unix", "kernel">>}
Outcomes == {"err", "wait", "done"}
\* What the transport achieves in the calls one operation makes: one per
\* address tried, and one for the step of the handshake.
Transports == [1..(MaxAddress + 1) -> Outcomes]
Fds == {0 - 1, TransportFd, TransportFd + 1}
   \* descriptors the program passes, or none
ServerIds == {SD_ID128_NULL, 1}
Names ==
  {<<":", "1", ".", "7">>, <<"a", ".", "b">>, <<":", "1">>, <<>>}
\* What the peer sends to a connection that waits for the reply to Hello.
HelloReplies ==
  [type : {"METHOD_RETURN"}, reply_serial : {1}, error : {""},
   body : {<<>>} \cup {<<n>> : n \in Names}]
  \cup [type : {"METHOD_ERROR"}, reply_serial : {1},
        error : {"org.freedesktop.DBus.Error.InvalidArgs"}, body : {<<>>}]
  \cup [type : {"METHOD_RETURN"}, reply_serial : {2}, error : {""},
        body : {<<":", "1", ".", "7">>}]
  \cup Signals

SetAddress ==
  \E address \in Addresses \cup {NullAddress}, oom \in BOOLEAN :
    /\ Callable
    /\ Becomes(sd_bus_set_address(World, address, oom).w)

SetFd ==
  \E input_fd \in Fds, output_fd \in Fds :
    /\ Callable
    /\ Becomes(sd_bus_set_fd(World, input_fd, output_fd).w)

SetExec ==
  \E path \in BOOLEAN, argv \in BOOLEAN, oom \in BOOLEAN :
    /\ Callable
    /\ Becomes(sd_bus_set_exec(World, path, argv, oom).w)

SetBusClient ==
  \E b \in BOOLEAN :
    /\ Callable
    /\ Becomes(sd_bus_set_bus_client(World, b).w)

NegotiateFds ==
  \E b \in BOOLEAN :
    /\ Callable
    /\ Becomes(sd_bus_negotiate(World, "ACCEPT_FD", b).w)

SetServer ==
  \E b \in BOOLEAN, server_id \in ServerIds :
    /\ Callable
    /\ Becomes(sd_bus_set_server(World, b, server_id).w)

SetAnonymous ==
  \E b \in BOOLEAN :
    /\ Callable
    /\ Becomes(sd_bus_set_anonymous(World, b).w)

\* sd_bus_start(); the outcomes and the allocations make no difference to a
\* call that is refused for the state.
Start ==
  \E tr \in IF state = "UNSET" THEN Transports ELSE {<<>>},
     tx \in [room : {0}, then : {"eagain"},
             oom : IF state = "UNSET" /\ conf.bus_client
                   THEN {"none", "message", "new0", "realloc"}
                   ELSE {"none"}] :
    /\ Callable
    /\ Becomes(sd_bus_start(World, tr, tx).w)

\* sd_bus_process() of a connection that sends nothing but Hello.
ProcessStart ==
  /\ Callable
  /\ \E env \in WriteEnvs(Len(wqueue) > 0, MsgSize + 1,
                          {"strdup"} \cup (IF reply_callbacks_prioq = {} THEN {}
                                           ELSE {"message"})),
        rd \in IF state = "OPENING"
               THEN [kind : {"none"}, m : {NoMsg}, tr : Transports]
               ELSE IF state = "AUTHENTICATING"
               THEN [kind : {"none"}, m : {NoMsg},
                     tr : {<<o>> : o \in Outcomes}]
               ELSE {[kind |-> r.kind, m |-> r.m, tr |-> <<>>] :
                       r \in Reads(HelloReplies)},
        c \in IF reply_callbacks_prioq = {} THEN {NoCallback}
              ELSE prioq_peek(reply_callbacks_prioq) :
       Becomes(sd_bus_process(World, env, rd, c).w)

InitStart == StartsAs(NewBus)

NextStart ==
  \/ SetAddress \/ SetFd \/ SetExec \/ SetBusClient \/ NegotiateFds
  \/ SetServer \/ SetAnonymous \/ Start \/ ProcessStart \/ Close \/ Fork
SpecStart == InitStart /\ [][NextStart]_vars

(***************************************************************************)
(* A running connection with calls in flight and filters, whose program    *)
(* makes blocking calls while the peer sends replies and signals.          *)
(***************************************************************************)
\* The messages that carry the reply serial a blocking call waits for: the
\* reply, an error, and a message of another type.
MatchingMessages(awaited) ==
  [type : {"METHOD_RETURN", "SIGNAL"}, reply_serial : {awaited}, error : {""},
   body : {<<>>}]
  \cup [type : {"METHOD_ERROR"}, reply_serial : {awaited},
        error : {"org.example.Error", "org.freedesktop.DBus.Error.InvalidArgs"},
        body : {<<>>}]

\* What a turn of the blocking call's loop can meet.
BlockInputs ==
  [rd : Reads(PeerMessages \cup MatchingMessages(cur.serial)),
   failed : BOOLEAN,
   env : WriteEnvs(Len(wqueue) > 0, MsgSize + 1, {"realloc", "strdup"})]

\* sd_bus_send_with_reply() of a new message, without a deadline.
CallForever ==
  /\ Callable /\ Len(events.calls) < MaxCalls
  /\ \E m \in {m \in Sendable : ~msgs[m].sealed}, env \in Unblocked({}) :
       Becomes(sd_bus_send_with_reply(World, m, "callback", Infinite, TRUE,
                                      env).w)

\* The first sd_bus_add_filter().
AddFirstFilter ==
  /\ Callable /\ Len(events.filters) = 0
  /\ \E callback \in {"f"} :
       Becomes(sd_bus_add_filter(World, callback).w)

\* sd_bus_send_with_reply_and_block() of a new message, with and without a
\* deadline.
BlockingCall ==
  /\ Callable /\ Len(sendlog) < MaxCalls
  /\ \E m \in {m \in Sendable : ~msgs[m].sealed}, usec \in {Infinite, 1},
        env \in Unblocked({}) :
       /\ calc_elapse(World, usec) <= MaxTime
       /\ Becomes(sd_bus_send_with_reply_and_block(World, m, usec, env).w)

\* One turn of the blocking call's loop.
BlockTurn ==
  /\ cur.inner = "block"
  /\ \E i \in BlockInputs :
       Becomes(block_loop(World, i.rd, i.failed, i.env).w)

NextBlock ==
  \/ CallForever \/ AddFirstFilter \/ BlockingCall \/ BlockTurn
  \/ ProcessSignals \/ CallbackReturn \/ Tick
SpecBlock == InitReply /\ [][NextBlock]_vars

(***************************************************************************)
(* A running connection that registers vtables and emits PropertiesChanged *)
(* signals, before and after a fork().                                     *)
(***************************************************************************)
\* The strvs of property names sd_bus_emit_properties_changed_strv() is given.
NameLists == {<<>>, <<"P">>, <<"Q">>, <<"R">>, <<"P", "Q">>, <<"P", "R">>}
\* What the property getter and the append of the node can do.
EmitCallbacks == [get : {"ok", "fail", "error"}, append : {"ok", "err", "crash"}]

EmitPropertiesChanged ==
  /\ Callable /\ Len(sendlog) < MaxEmits
  /\ \E path \in Paths, interface \in Interfaces, names \in NameLists,
        env \in Unblocked({"message"}), cb \in EmitCallbacks :
       Becomes(sd_bus_emit_properties_changed_strv(
                 World, path, interface, names, env, cb).w)

NextEmit ==
  \/ AddObjectVtable \/ RemoveObjectVtable \/ EmitPropertiesChanged
  \/ Close \/ Fork
SpecEmit == InitReply /\ [][NextEmit]_vars

(***************************************************************************)
(* A running connection that registers objects and whose peer calls        *)
(* methods. The handlers of this program leave the object tree alone, so   *)
(* the tree changes between the calls of sd_bus_process() only.            *)
(***************************************************************************)
\* The method calls the peer sends: to an interface of the program, with no
\* interface, to org.freedesktop.DBus.Peer and to
\* org.freedesktop.DBus.Properties. The body is the sequence of the strings
\* the call carries.
CallsOf(interface, members, signatures, bodies) ==
  [type : {"METHOD_CALL"}, serial : {5}, reply_serial : {0}, error : {""},
   path : Paths, interface : {interface}, member : members,
   no_reply_expected : BOOLEAN, signature : signatures, body : bodies]

MethodCalls ==
  CallsOf("I", {"M"}, {"", "s"}, {<<>>})
  \cup CallsOf("I", {"X"}, {""}, {<<>>})
  \cup CallsOf("", {"M"}, {""}, {<<>>})
  \cup CallsOf(Peer, {"Ping", "GetMachineId", "X"}, {""}, {<<>>})
  \cup CallsOf(Properties, {"Get", "Set"}, {"ss"}, {<<"I", "P">>, <<"I", "Q">>})
  \cup CallsOf(Properties, {"Get"}, {"s"}, {<<"I">>})
  \cup CallsOf(Properties, {"GetAll"}, {"s"}, {<<"I">>, <<"K">>, <<"">>})

\* sd_bus_process(bus, ret) with and without ret, the peer calling methods.
ProcessCalls ==
  /\ Callable
  /\ \E want \in BOOLEAN, env \in DispatchEnvs,
        rd \in Reads(IF nread < MaxDispatch THEN MethodCalls ELSE {}) :
       Becomes(sd_bus_process_ret(World, want, env, rd, NoCallback).w)

\* The program registers its objects before it processes: object callbacks
\* "f", fallback callbacks "g", the vtable vtA for the interface "I" (of the
\* objects "/a/b" and "/a" and as the fallback of "/a" and "/"), an object
\* manager.
RegisterObject ==
  /\ pc = "idle" /\ nread = 0
  /\ \E path \in Paths, fb \in BOOLEAN :
       /\ TreeRoom(path)
       /\ TreeCall(IF fb THEN "add_fallback" ELSE "add_object",
                   bus_add_object(World, fb, path, IF fb THEN "g" ELSE "f"))

RegisterVtable ==
  /\ pc = "idle" /\ nread = 0
  /\ \E path \in Paths, fb \in BOOLEAN :
       /\ path = <<"/", "a", "/", "b">> => ~fb
       /\ path = ROOT => fb
       /\ TreeRoom(path)
       /\ TreeCall(IF fb THEN "add_fallback_vtable" ELSE "add_object_vtable",
                   add_object_vtable_internal(World, path, "I", "vtA", fb))

RegisterManager ==
  /\ pc = "idle" /\ nread = 0
  /\ \E path \in {<<"/", "a">>} :
       /\ TreeRoom(path)
       /\ TreeCall("add_object_manager", sd_bus_add_object_manager(World, path))

NextDispatch ==
  \/ RegisterObject \/ RegisterVtable \/ RegisterManager
  \/ ProcessCalls \/ CallbackReturn
SpecDispatch == InitReply /\ [][NextDispatch]_vars

(***************************************************************************)
(* A running connection over a socket that takes a part of a message: its  *)
(* calls wait in the write queue, their deadlines pass, the peer sends     *)
(* replies and signals, and one filter sees them.                          *)
(***************************************************************************)
\* sd_bus_send_with_reply() of a new message over a socket that may block.
QueueCall ==
  /\ Callable /\ Len(events.calls) < MaxCalls
  /\ \E m \in {m \in Sendable : ~msgs[m].sealed}, usec \in {Infinite, 1},
        env \in WriteEnvs(Len(wqueue) = 0, MsgSize, {}) :
       /\ calc_elapse(World, usec) <= MaxTime
       /\ Becomes(sd_bus_send_with_reply(World, m, "callback", usec, TRUE,
                                         env).w)

\* A process call of a connection whose peer sends replies and signals.
ProcessMessages == ProcessWith(PeerMessages)

\* What the peer sends to a bus client before and after it answers Hello:
\* the replies to Hello, signals, and a method call.
HelloInbound ==
  HelloReplies
  \cup {m \in CallsOf(Peer, {"Ping"}, {""}, {<<>>}) :
          m.path = ROOT /\ ~m.no_reply_expected}
\* sd_bus_process() of a connection that is starting as a bus client over a
\* descriptor.
ProcessHello ==
  /\ Callable
  /\ \E env \in WriteEnvs(Len(wqueue) > 0, MsgSize, {}),
        rd \in IF state = "OPENING"
               THEN [kind : {"none"}, m : {NoMsg}, tr : Transports]
               ELSE IF state = "AUTHENTICATING"
               THEN [kind : {"none"}, m : {NoMsg},
                     tr : {<<o>> : o \in Outcomes}]
               ELSE {[kind |-> r.kind, m |-> r.m, tr |-> <<>>] :
                       r \in Reads(HelloInbound)},
        c \in IF reply_callbacks_prioq = {} THEN {NoCallback}
              ELSE prioq_peek(reply_callbacks_prioq) :
       Becomes(sd_bus_process(World, env, rd, c).w)
\* sd_bus_set_fd() and sd_bus_set_bus_client() of a program that configures
\* a bus client.
SetClientFd ==
  /\ Callable
  /\ Becomes(sd_bus_set_fd(World, TransportFd, TransportFd).w)
SetClient ==
  /\ Callable
  /\ Becomes(sd_bus_set_bus_client(World, TRUE).w)
NextHello ==
  \/ SetClientFd \/ SetClient \/ Start \/ AddFirstFilter \/ ProcessHello
  \/ CallbackReturn
SpecHello == InitStart /\ [][NextHello]_vars

\* A connection that has sealed almost as many messages as its serial
\* counter can count.
LateSerials == {SerialModulus - 3, SerialModulus - 2, SerialModulus - 1}
InitWrap ==
  \E s \in LateSerials : StartsAs([Running(FALSE) EXCEPT !.serial = s])
\* sd_bus_send_with_reply_cancel() with the serial of a pending call.
CancelPending ==
  /\ Callable
  /\ \E c \in reply_callbacks :
       Becomes(sd_bus_send_with_reply_cancel(World, c.serial).w)
NextWrap == QueueCall \/ CancelPending \/ ProcessWrites
SpecWrap == InitWrap /\ [][NextWrap]_vars

NextProgress ==
  \/ QueueCall \/ AddFirstFilter \/ ProcessMessages \/ CallbackReturn \/ Tick
SpecProgress == InitReply /\ [][NextProgress]_vars

(***************************************************************************)
(* Properties of sending (SpecSend).                                       *)
(***************************************************************************)
\* The messages sd_bus_send() accepted, in call order, and their serials.
SentMsgs == [i \in DOMAIN sendlog |-> sendlog[i].m]
SerialOf(m) == msgs[m].serial

\* The messages on the wire, in the order of their first bytes.
FirstBytes == SelectSeq(wire, LAMBDA b : b.byte = 1)
WireMsgs == [i \in DOMAIN FirstBytes |-> FirstBytes[i].m]

\* The queued messages no byte of which is on the wire.
Unwritten == IF windex > 0 THEN Tail(wqueue) ELSE wqueue

RECURSIVE IsSubseq(_, _)
IsSubseq(a, b) ==
  IF Len(a) = 0 THEN TRUE
  ELSE IF Len(b) = 0 THEN FALSE
  ELSE IF a[1] = b[1] THEN IsSubseq(Tail(a), Tail(b))
  ELSE IsSubseq(a, Tail(b))

\* C1: every message that sd_bus_send() sealed and accepted has a serial that
\* is not 0 and is greater than the serial of every message accepted before
\* it; and when all accepted messages were new ones, the serials appear on
\* the wire in increasing order, that is, in the order of the calls.
C1_SerialsMonotonic ==
  /\ \A j \in DOMAIN sendlog :
       sendlog[j].fresh =>
         /\ SerialOf(sendlog[j].m) # 0
         /\ \A i \in 1..(j - 1) :
              SerialOf(sendlog[i].m) < SerialOf(sendlog[j].m)
  /\ (\A j \in DOMAIN sendlog : sendlog[j].fresh) =>
       \A i, j \in DOMAIN FirstBytes :
         i < j => /\ FirstBytes[i].serial # 0
                  /\ FirstBytes[i].serial < FirstBytes[j].serial

\* Three new messages were sent one after the other on a running connection
\* and all three are on the wire.
C1_Witness ==
  /\ state = "RUNNING" /\ Len(wqueue) = 0
  /\ Len(sendlog) = 3 /\ \A j \in DOMAIN sendlog : sendlog[j].fresh
  /\ Len(FirstBytes) = 3 /\ Len(wire) = 3 * MsgSize

\* C2: the wire carries the accepted messages in the order sd_bus_send()
\* accepted them, each one whole before the next one begins; only the last
\* one may be incomplete, and then it is wqueue[0] with windex bytes written.
\* On a socket every accepted message is on the wire or waits in the queue.
C2_WriteOrder ==
  /\ \A k \in DOMAIN wire :
       \/ /\ wire[k].byte = 1
          /\ k > 1 => wire[k - 1].byte = MsgSize
       \/ /\ k > 1 /\ wire[k].byte = wire[k - 1].byte + 1
          /\ wire[k].m = wire[k - 1].m
  /\ (Len(wire) > 0 /\ wire[Len(wire)].byte < MsgSize) =>
       /\ Len(wqueue) > 0 /\ wqueue[1] = wire[Len(wire)].m
       /\ windex = wire[Len(wire)].byte
  /\ windex > 0 =>
       /\ Len(wqueue) > 0 /\ Len(wire) > 0
       /\ wire[Len(wire)] = [m |-> wqueue[1], serial |-> SerialOf(wqueue[1]),
                             byte |-> windex]
  /\ IsSubseq(WireMsgs \o Unwritten, SentMsgs)
  /\ ~is_kernel => WireMsgs \o Unwritten = SentMsgs

\* A message is on the wire, the next one is written in part and heads the
\* queue, a third one waits behind it.
C2_Witness ==
  /\ ~is_kernel /\ windex > 0 /\ Len(wqueue) = 2
  /\ Len(wire) = MsgSize + windex

(***************************************************************************)
(* Properties of the reply callbacks (SpecReply, SpecReplyLive).           *)
(***************************************************************************)
\* The reply_callback structs allocated so far, what became of struct id, and
\* where it is.
Calls == DOMAIN events.calls
FateOf(id) == events.calls[id].fate
Has(id, kinds) == \E k \in DOMAIN FateOf(id) : FateOf(id)[k] \in kinds
Count(id, kinds) ==
  Cardinality({k \in DOMAIN FateOf(id) : FateOf(id)[k] \in kinds})
InTable(id) == \E c \in reply_callbacks : c.id = id
InPrioq(id) == \E c \in reply_callbacks_prioq : c.id = id
SerialInTable(n) == \E c \in reply_callbacks : c.serial = n
SerialInPrioq(n) == \E c \in reply_callbacks_prioq : c.serial = n

\* The callback is entered with the Timeout error that carries the call's
\* serial as reply serial, and not before the deadline.
C3_AtEntry ==
  pc = "timeout_cb" =>
    /\ cur.m = [type |-> "METHOD_ERROR",
                reply_serial |-> events.calls[cur.c.id].serial,
                error |-> "org.freedesktop.DBus.Error.Timeout",
                body |-> <<>>]
    /\ cur.c.timeout # 0 /\ now >= cur.c.timeout
    /\ FateOf(cur.c.id) = <<"registered", "timeout">>

\* A call registered now with the timeout T gets the deadline now + T (the
\* default for T = 0).
C3_Deadline ==
  \A m \in 1..MaxMsgs, usec \in {0, 1} :
    LET res == sd_bus_send_with_reply(
                 World, m, "callback", usec, TRUE,
                 [room |-> MsgSize, then |-> "eagain", oom |-> "none"])
    IN  res.r >= 0 =>
          \E c \in res.w.reply_callbacks_prioq :
            /\ c.id = Len(events.calls) + 1
            /\ c.serial = res.w.msgs[m].serial
            /\ c.timeout = now + (IF usec = 0 THEN DefaultTimeout ELSE usec)

\* C3: a call registered with a finite timeout, for which no reply arrives
\* and which is not cancelled, has its callback invoked with the Timeout
\* error for its serial, once and not before its deadline, if the main loop
\* keeps calling sd_bus_process() while the connection is open.
C3_TimeoutFires ==
  /\ [](C3_AtEntry /\ C3_Deadline)
  /\ [](\A id \in Calls : Count(id, {"timeout"}) <= 1)
  /\ \A id \in 1..MaxCalls :
       (id \in Calls /\ InPrioq(id))
         ~> \/ state = "CLOSED"
            \/ id \in Calls /\ Has(id, {"cancel", "reply", "timeout"})

\* The callback of a call is running with the Timeout error; no reply for it
\* had arrived and it was not cancelled.
C3_Witness ==
  /\ pc = "timeout_cb" /\ state = "RUNNING" /\ now = cur.c.timeout
  /\ FateOf(cur.c.id) = <<"registered", "timeout">>

\* C4: every reply_callback struct has its callback invoked at most once, by
\* the reply whose reply serial is the call's serial or by the timeout; and
\* once it has been invoked or cancelled, it is neither in the table nor in
\* the timeout queue, and at the invocation or cancellation its serial is in
\* neither.
C4_AtMostOnce ==
  /\ [](\A id \in Calls :
          /\ Count(id, {"timeout", "reply"}) <= 1
          /\ Has(id, {"timeout", "reply", "cancel"}) =>
               ~InTable(id) /\ ~InPrioq(id)
          /\ InPrioq(id) => InTable(id))
  /\ [](pc = "reply_cb" =>
          /\ cur.m.type \in {"METHOD_RETURN", "METHOD_ERROR"}
          /\ cur.m.reply_serial = cur.c.serial
          /\ cur.c.serial = events.calls[cur.c.id].serial)
  /\ [][\A id \in Calls :
          (FateOf(id)' # FateOf(id)
             /\ FateOf(id)'[Len(FateOf(id)')] \in {"timeout", "reply", "cancel"})
          => /\ ~SerialInTable(events.calls[id].serial)'
             /\ ~SerialInPrioq(events.calls[id].serial)']_vars

\* One call was answered by its reply and another one timed out; both
\* callbacks have returned.
C4_Witness ==
  /\ pc = "idle" /\ Len(events.calls) = 2
  /\ \E i, j \in Calls : /\ FateOf(i) = <<"registered", "reply">>
                         /\ FateOf(j) = <<"registered", "timeout">>

\* C5: after sd_bus_send_with_reply_cancel() removed a callback it is never
\* invoked, whatever arrives or elapses later; and for a serial (not 0) that
\* has no callback in the table, because the callback has fired, has been
\* cancelled or never existed, the call changes nothing and returns 0.
C5_Cancel ==
  /\ \A id \in Calls :
       \A k \in DOMAIN FateOf(id) :
         FateOf(id)[k] = "cancel" =>
           \A j \in (k + 1)..Len(FateOf(id)) :
             FateOf(id)[j] \in {"failed", "stray"}
  /\ \A key \in 1..(MaxMsgs + 1) :
       IF SerialInTable(key)
       THEN LET res == sd_bus_send_with_reply_cancel(World, key)
            IN  /\ res.r = 1
                /\ ~\E c \in res.w.reply_callbacks \cup
                                res.w.reply_callbacks_prioq : c.serial = key
       ELSE sd_bus_send_with_reply_cancel(World, key) = Res(World, 0)

\* A call with a deadline was cancelled; its reply arrived afterwards and
\* its deadline has passed.
C5_Witness ==
  \E id \in Calls :
    /\ FateOf(id) = <<"registered", "cancel", "stray">>
    /\ now = MaxTime /\ pc = "idle" /\ state = "RUNNING"

\* C6: when sd_bus_send_with_reply() fails after it put the callback into the
\* table (it cancels the callback then, fate "cancel", "failed"), the
\* callback is in neither the table nor the timeout queue when the call has
\* returned, and it is never invoked.
C6_Rollback ==
  \A id \in Calls :
    Has(id, {"failed"}) =>
      /\ ~InTable(id) /\ ~InPrioq(id)
      /\ ~SerialInTable(events.calls[id].serial) \/
           \E c \in reply_callbacks :
             c.serial = events.calls[id].serial /\ c.id > id
      /\ \A k \in DOMAIN FateOf(id) :
           FateOf(id)[k] \in {"cancel", "failed", "stray"}

\* The insertion into the timeout queue failed for one call, the write of
\* the message for another one.
C6_Witness ==
  /\ Len(events.calls) = 2 /\ state = "CLOSED"
  /\ Has(1, {"failed"}) /\ Has(2, {"failed"})

Filters == DOMAIN events.filters
Runs(l) == events.filters[l]

\* The walk over the filters ends with this return of a filter's callback
\* and no filter has claimed the message.
WalkEnds(rv, g) ==
  /\ pc = "filter_cb"
  /\ ~callback_return(World, rv, g, NoReply).pending
  /\ callback_return(World, rv, g, NoReply).stage = "unhandled"

\* C8: no filter registration has its callback invoked twice for the same
\* message (iteration), whatever is added or removed during the walk; and
\* when the walk ends with every callback having returned 0, each filter
\* still registered has been invoked for this message, once.
C8_FilterOnce ==
  /\ \A l \in Filters :
       \A i, j \in DOMAIN Runs(l) : i # j => Runs(l)[i] # Runs(l)[j]
  /\ \A g \in 0..MaxFilters :
       WalkEnds(0, g) =>
         LET w == callback_return(World, 0, g, NoReply).w
         IN  \A k \in DOMAIN w.filter_callbacks :
               LET l == w.filter_callbacks[k].id
               IN  Cardinality({i \in DOMAIN w.events.filters[l] :
                                  w.events.filters[l][i] = w.iteration_counter})
                     = 1

\* The walk has started over after a filter was added: the callback of the
\* new filter runs and a filter behind it in the list has run for this
\* message already.
C8_Witness ==
  /\ pc = "filter_cb" /\ FilterIndex(World, cur.l) # 0
  /\ \E k \in DOMAIN filter_callbacks :
       /\ k > FilterIndex(World, cur.l)
       /\ filter_callbacks[k].last_iteration = iteration_counter
       /\ Runs(filter_callbacks[k].id) # <<>>

(***************************************************************************)
(* Properties of the object tree (SpecTree).                               *)
(***************************************************************************)
\* C9: when no registration is left in the tree, nodes is empty.
C9_NodesEmptied == RegCount(nodes) = 0 => DOMAIN nodes = {}

\* The same for the states in which every call has returned.
C9_Returned == pc # "stuck" => C9_NodesEmptied

HasVtable(path, interface) ==
  /\ path \in DOMAIN nodes
  /\ \E k \in DOMAIN nodes[path].vtables :
       nodes[path].vtables[k].interface = interface

\* C10: registering a vtable for a (path, interface) that has one returns
\* -EEXIST.
C10_AlreadyExists ==
  \A path \in Paths, interface \in Interfaces, vt \in DOMAIN Vtables,
     fb \in BOOLEAN :
    (Callable /\ HasVtable(path, interface)
       /\ Vtables[vt][1].type = "START") =>
      add_object_vtable_internal(World, path, interface, vt, fb).r
        = 0 - errno.EEXIST

\* No (path, interface) has two vtables.
C10_OnePerInterface ==
  \A path \in DOMAIN nodes :
    \A j, k \in DOMAIN nodes[path].vtables :
      j # k => nodes[path].vtables[j].interface # nodes[path].vtables[k].interface

\* C11: registering a vtable for a (path, interface) that has a vtable with
\* the other fallback flag returns -EPROTOTYPE.
C11_WrongProtocol ==
  \A path \in Paths, interface \in Interfaces, vt \in DOMAIN Vtables,
     fb \in BOOLEAN :
    (/\ Callable /\ path \in DOMAIN nodes
     /\ Vtables[vt][1].type = "START"
     /\ \E k \in DOMAIN nodes[path].vtables :
          /\ nodes[path].vtables[k].interface = interface
          /\ nodes[path].vtables[k].is_fallback # fb) =>
      add_object_vtable_internal(World, path, interface, vt, fb).r
        = 0 - errno.EPROTOTYPE

\* The vtables of a node share one fallback flag.
C11_OneFlag ==
  \A path \in DOMAIN nodes :
    \A j, k \in DOMAIN nodes[path].vtables :
      nodes[path].vtables[j].is_fallback = nodes[path].vtables[k].is_fallback

(***************************************************************************)
(* Properties of the connection's life (SpecStart).                        *)
(***************************************************************************)
\* The arguments the setters are given.
SetterResults(w) ==
  {sd_bus_set_address(w, a, oom) :
     a \in Addresses \cup {NullAddress}, oom \in BOOLEAN}
  \cup {sd_bus_set_fd(w, i, o) : i \in Fds, o \in Fds}
  \cup {sd_bus_set_exec(w, x[1], x[2], x[3]) :
          x \in BOOLEAN \X BOOLEAN \X BOOLEAN}
  \cup {sd_bus_set_bus_client(w, b) : b \in BOOLEAN}
  \cup {sd_bus_negotiate(w, f, b) : f \in HelloFlags, b \in BOOLEAN}
  \cup {sd_bus_set_anonymous(w, b) : b \in BOOLEAN}

\* What sd_bus_process() may be given: the environment of its writes, what
\* the transport has to read, and the head of the timeout queue.
ProcessInputsOf(msgs_) ==
  [env : WriteEnvs(TRUE, MsgSize, {"message", "strdup"}),
   rd : [kind : {"err", "none", "partial"}, m : {NoMsg}, tr : {<<>>}]
        \cup [kind : {"msg"}, m : msgs_, tr : {<<>>}],
   c : IF reply_callbacks_prioq = {} THEN {NoCallback}
       ELSE prioq_peek(reply_callbacks_prioq)]
ProcessInputs == ProcessInputsOf(Replies)

\* The calls the claim lists, but sd_bus_process(), return -ENOTCONN on a
\* closed connection and leave it as it is; sd_bus_get_timeout() does if it
\* is given a place for the timeout, and returns -EINVAL if not.
C12_NotConnected ==
  /\ \A m \in 1..MaxMsgs, want_serial \in BOOLEAN, usec \in Usecs,
        env \in WriteEnvs(TRUE, MsgSize, {"new0", "realloc"}) :
       /\ sd_bus_send(World, m, want_serial, env)
            = Res(World, 0 - errno.ENOTCONN)
       /\ sd_bus_send_with_reply(World, m, "callback", usec, want_serial, env)
            = Res(World, 0 - errno.ENOTCONN)
       /\ sd_bus_send_with_reply_and_block(World, m, usec, env)
            = Leaves(World, 0 - errno.ENOTCONN)
       /\ sd_bus_flush(World, env) = Leaves(World, 0 - errno.ENOTCONN)
  /\ \A ready \in {0 - 1, 0, 1} : sd_bus_wait(World, ready) = 0 - errno.ENOTCONN
  /\ sd_bus_get_fd(World) = 0 - errno.ENOTCONN
  /\ \A w \in BOOLEAN : sd_bus_get_events(World, w) = 0 - errno.ENOTCONN
  /\ \A t \in 0..MaxTime :
       /\ sd_bus_get_timeout(World, TRUE, t).r = 0 - errno.ENOTCONN
       /\ sd_bus_get_timeout(World, FALSE, t).r = 0 - errno.EINVAL

\* The state every other public call leaves.
StatesLeft ==
  {res.w.state : res \in SetterResults(World)
                          \cup {sd_bus_set_server(World, b, id) :
                                  b \in BOOLEAN, id \in ServerIds}}
  \cup {sd_bus_start(World, tr, [room |-> 0, then |-> "eagain",
                                 oom |-> "none"]).w.state : tr \in Transports}
  \cup {sd_bus_send_with_reply_cancel(World, key).w.state : key \in 0..MaxMsgs}
  \cup {sd_bus_add_filter(World, h).w.state : h \in Handlers}
  \cup {sd_bus_remove_filter(World, h).w.state : h \in Handlers}
  \cup {sd_bus_process(World, i.env, i.rd, i.c).w.state : i \in ProcessInputs}
  \cup {sd_bus_close(World).state}

\* C12 as stated: on a closed connection sd_bus_process() returns -ENOTCONN
\* as the other calls do.
C12_ProcessNotConnected ==
  state = "CLOSED" /\ Callable =>
    /\ C12_NotConnected
    /\ \A i \in ProcessInputs :
         sd_bus_process(World, i.env, i.rd, i.c)
           = Ret(World, 0 - errno.ENOTCONN, "")

\* C12: a closed connection stays closed under every call and every step;
\* send, send_with_reply, send_with_reply_and_block, wait, flush, get_fd,
\* get_events and get_timeout return -ENOTCONN; sd_bus_process() returns
\* -ECHILD in a forked child, -EBUSY when called from inside a callback of
\* sd_bus_process(), and -ENOTCONN otherwise; sd_bus_close() changes nothing.
C12_ClosedIsTerminal ==
  /\ [](state = "CLOSED" /\ Callable =>
          /\ C12_NotConnected
          /\ StatesLeft = {"CLOSED"}
          /\ sd_bus_close(World) = World
          /\ \A i \in ProcessInputs :
               sd_bus_process(World, i.env, i.rd, i.c)
                 = Ret(World,
                       IF bus_pid_changed(World) THEN 0 - errno.ECHILD
                       ELSE IF processing THEN 0 - errno.EBUSY
                       ELSE 0 - errno.ENOTCONN, ""))
  /\ [][state = "CLOSED" => state' = "CLOSED"]_vars

\* The connection was closed from inside a reply callback.
C12_Witness ==
  /\ state = "CLOSED" /\ sd_bus_get_fd(World) = 0 - errno.ENOTCONN
  /\ processing /\ pc = "reply_cb" /\ ~bus_pid_changed(World)
  /\ \A i \in ProcessInputs :
       sd_bus_process(World, i.env, i.rd, i.c).r = 0 - errno.EBUSY

\* C13 as stated: a configuration setter called in a state other than Unset
\* returns -EPERM, whatever its arguments, and leaves the connection as it
\* was.
C13_SettersNeedUnset ==
  state # "UNSET" =>
    \A res \in SetterResults(World)
                \cup {sd_bus_set_server(World, b, id) :
                        b \in BOOLEAN, id \in ServerIds} :
      res = Res(World, 0 - errno.EPERM)

\* C13: a configuration setter called in a state other than Unset leaves the
\* connection as it was and returns -EPERM, except that sd_bus_set_server()
\* given b = 0 with a server id that is not null returns -EINVAL.
C13_SettersRefused ==
  state # "UNSET" =>
    /\ \A res \in SetterResults(World) : res = Res(World, 0 - errno.EPERM)
    /\ \A b \in BOOLEAN, id \in ServerIds :
         sd_bus_set_server(World, b, id) =
           Res(World, IF ~b /\ id # SD_ID128_NULL THEN 0 - errno.EINVAL
                      ELSE 0 - errno.EPERM)

\* A setter is refused by a connection that has been configured and started.
C13_Witness ==
  /\ state = "AUTHENTICATING" /\ conf.anonymous_auth /\ conf.input_fd >= 0
  /\ sd_bus_set_anonymous(World, FALSE) = Res(World, 0 - errno.EPERM)
  /\ sd_bus_set_server(World, FALSE, 1) = Res(World, 0 - errno.EINVAL)

\* C14: a call of sd_bus_start() that is rejected leaves the state as it
\* was, Unset if it was Unset.
C14_RejectedStartKeepsState ==
  \A tr \in Transports :
    LET res == sd_bus_start(World, tr,
                            [room |-> 0, then |-> "eagain", oom |-> "none"])
    IN  (\/ state # "UNSET"
         \/ conf.is_server /\ conf.bus_client
         \/ ~(\/ conf.input_fd >= 0 \/ conf.address # NullAddress
              \/ conf.sockaddr \/ conf.exec_path \/ conf.kernel)) =>
          res.r < 0 /\ res.w.state = state

\* sd_bus_start() in a state other than Unset returns -EPERM and changes
\* nothing; in Unset with nothing configured, or with server and bus_client
\* both set, it returns -EINVAL.
C14_Rejected ==
  \A tr \in Transports :
    LET res == sd_bus_start(World, tr,
                            [room |-> 0, then |-> "eagain", oom |-> "none"])
    IN  /\ state # "UNSET" => res = Res(World, 0 - errno.EPERM)
        /\ (/\ state = "UNSET"
            /\ \/ conf.is_server /\ conf.bus_client
               \/ ~(\/ conf.input_fd >= 0 \/ conf.address # NullAddress
                    \/ conf.sockaddr \/ conf.exec_path \/ conf.kernel)) =>
             res.r = 0 - errno.EINVAL

\* The message one call of sd_bus_process() dispatches, if it gets that far.
Dispatched(rd) == IF Len(rqueue) > 0 THEN rqueue[1] ELSE rd.m

\* A name that hello_callback() accepts.
UniqueName(n) == service_name_is_valid(n) /\ n[1] = ":"

\* C15: a bus client on a socket leaves Hello for Running only in a call of
\* sd_bus_process() that dispatches a method return to the Hello call with a
\* string that is a valid unique name beginning with ':', which is stored as
\* unique_name; a method return whose string is no such name makes the call
\* return -EBADMSG and leaves the state and unique_name as they were; and
\* the connection is never Running without a unique name.
C15_Hello ==
  /\ (state = "RUNNING" /\ conf.bus_client /\ ~is_kernel) =>
       UniqueName(conf.unique_name)
  /\ (state = "HELLO" /\ conf.bus_client /\ ~is_kernel /\ Callable) =>
       \A i \in ProcessInputsOf(HelloReplies) :
         LET res == sd_bus_process(World, i.env, i.rd, i.c)
             m == Dispatched(i.rd)
         IN  /\ res.w.state \in {"HELLO", "RUNNING", "CLOSED"}
             /\ res.w.state = "RUNNING" =>
                  /\ m.type = "METHOD_RETURN" /\ m.reply_serial = hello_serial
                  /\ Len(m.body) = 1 /\ UniqueName(m.body[1])
                  /\ res.w.conf.unique_name = m.body[1] /\ res.r = 1
             /\ (/\ res.stage = "reply" /\ m.type = "METHOD_RETURN"
                 /\ Len(m.body) = 1 /\ ~UniqueName(m.body[1])) =>
                  /\ res.r = 0 - errno.EBADMSG /\ res.w.state = "HELLO"
                  /\ res.w.conf.unique_name = conf.unique_name

\* The reply to Hello has made a bus client Running.
C15_Witness ==
  /\ state = "RUNNING" /\ conf.bus_client /\ ~is_kernel
  /\ conf.unique_name = <<":", "1", ".", "7">> /\ hello_serial = 1
  /\ reply_callbacks = {}

\* A reply to Hello with a name that is not valid has been refused: the
\* Hello call has had its reply, and the connection waits in Hello.
C15_Refused ==
  /\ state = "HELLO" /\ conf.bus_client /\ ~is_kernel
  /\ hello_serial = 1 /\ reply_callbacks = {} /\ conf.unique_name = <<>>

(***************************************************************************)
(* Properties of the write path's failures (SpecSend).                     *)
(***************************************************************************)
\* The transport refuses the first byte sd_bus_send() writes directly.
DirectWriteFails(w, tx) ==
  /\ w.state \in {"RUNNING", "HELLO"} /\ Len(w.wqueue) = 0
  /\ tx.room = 0 /\ tx.then = "err"

\* What is left to write of the write queue: bytes for a socket, messages for
\* the kernel transport.
QueueLeft(w) ==
  IF w.is_kernel THEN Len(w.wqueue)
  ELSE Len(w.wqueue) * MsgSize - w.windex

\* The transport fails before dispatch_wqueue() has drained the queue.
DrainFails(w, tx) ==
  /\ w.state \in {"RUNNING", "HELLO"} /\ Len(w.wqueue) > 0
  /\ tx.room < QueueLeft(w) /\ tx.then = "err"

\* C16: if the transport write fails, in the direct write of sd_bus_send()
\* or while dispatch_wqueue() drains the write queue, the call returns the
\* error of the write with the connection already CLOSED; this holds for
\* dispatch_wqueue() itself and for its callers sd_bus_process(),
\* sd_bus_flush() and the blocking call's loop.
C16_WriteFailureCloses ==
  \A env \in WriteEnvs(TRUE, MsgSize + 1, {}) :
    /\ Callable =>
         /\ \A m \in Sendable, want_serial \in BOOLEAN :
              LET res == sd_bus_send(World, m, want_serial, env)
              IN  /\ DirectWriteFails(World, env) => res.r = 0 - errno.EPIPE
                  /\ res.r = 0 - errno.EPIPE => res.w.state = "CLOSED"
         /\ LET res == dispatch_wqueue(World, env)
            IN  /\ DrainFails(World, env) => res.r = 0 - errno.EPIPE
                /\ res.r < 0 => res.w.state = "CLOSED"
         /\ LET res == sd_bus_process(World, env, [kind |-> "none", m |-> NoMsg],
                                      NoCallback)
            IN  /\ DrainFails(World, env) /\ ~processing
                     => res.r = 0 - errno.EPIPE
                /\ res.r = 0 - errno.EPIPE => res.w.state = "CLOSED"
         /\ LET res == sd_bus_flush(World, env)
            IN  /\ DrainFails(World, env) /\ state = "RUNNING"
                     => res.r = 0 - errno.EPIPE
                /\ res.r = 0 - errno.EPIPE => res.w.state = "CLOSED"
    /\ cur.inner = "flush" =>
         LET res == flush_poll(World, FALSE, env)
         IN  /\ DrainFails(World, env) => res.r = 0 - errno.EPIPE
             /\ res.r = 0 - errno.EPIPE => res.w.state = "CLOSED"
    /\ cur.inner = "block" =>
         LET res == block_loop(World, [kind |-> "none", m |-> NoMsg], FALSE, env)
         IN  res.r = 0 - errno.EPIPE => res.w.state = "CLOSED"

\* One message is written in part and another waits behind it, and the
\* transport fails after one more byte: sd_bus_process() writes the byte and
\* returns the error of a connection that is CLOSED.
C16_Witness ==
  /\ state = "RUNNING" /\ ~is_kernel /\ Len(wqueue) = 2 /\ windex = 1
  /\ Callable /\ ~processing
  /\ LET res == sd_bus_process(World,
                               [room |-> 1, then |-> "err", oom |-> "none"],
                               [kind |-> "none", m |-> NoMsg], NoCallback)
     IN  /\ res.r = 0 - errno.EPIPE /\ res.w.state = "CLOSED"
         /\ Len(res.w.wire) = Len(wire) + 1

\* Every environment of a call that writes or appends to the write queue.
SendEnvs == WriteEnvs(TRUE, MsgSize + 1, {"realloc"})

\* C17: the write queue never holds more than BUS_WQUEUE_MAX messages, and
\* an sd_bus_send() that finds it full returns -ENOBUFS with the write queue
\* and windex as they were; no other sd_bus_send() returns -ENOBUFS, and none
\* leaves the queue longer than the bound.
C17_QueueBounded ==
  /\ Len(wqueue) <= BUS_WQUEUE_MAX
  /\ \A m \in Sendable, want_serial \in BOOLEAN, env \in SendEnvs :
       LET res == sd_bus_send(World, m, want_serial, env)
       IN  /\ Len(res.w.wqueue) <= BUS_WQUEUE_MAX
           /\ BUS_IS_OPEN(state) /\ Len(wqueue) >= BUS_WQUEUE_MAX
                => /\ res.r = 0 - errno.ENOBUFS
                   /\ res.w.wqueue = wqueue /\ res.w.windex = windex
           /\ res.r = 0 - errno.ENOBUFS
                => /\ Len(wqueue) = BUS_WQUEUE_MAX
                   /\ res.w.wqueue = wqueue /\ res.w.windex = windex

\* The write queue of an open connection is full, its head written in part:
\* the next sd_bus_send() is the one that would exceed the bound.
C17_Witness ==
  /\ state = "RUNNING" /\ Callable /\ Len(sendlog) < MaxSends
  /\ Len(wqueue) = BUS_WQUEUE_MAX /\ windex > 0
  /\ \E m \in Sendable :
       sd_bus_send(World, m, TRUE, [room |-> MsgSize, then |-> "eagain",
                                    oom |-> "none"]).r = 0 - errno.ENOBUFS

(***************************************************************************)
(* Properties of a connection after fork() (SpecStart, SpecEmit).          *)
(***************************************************************************)
\* What a call of `call` leaves and returns.
Outcome2(res) == [w |-> res.w, r |-> res.r]

\* The public calls the application can make on connection w, with every
\* argument of the model, each as the connection it leaves and the value it
\* returns. sd_bus_close() returns nothing and is not among them.
PublicCalls(w) ==
  SetterResults(w)
  \cup {sd_bus_set_server(w, b, id) : b \in BOOLEAN, id \in ServerIds}
  \cup {sd_bus_start(w, tr, [room |-> 0, then |-> "eagain", oom |-> "none"]) :
          tr \in Transports}
  \cup UNION {{sd_bus_send(w, m, x[1], x[2]),
               sd_bus_send_with_reply(w, m, "callback", x[3], x[1], x[2]),
               Outcome2(sd_bus_send_with_reply_and_block(w, m, x[3], x[2]))} :
              m \in 1..Len(w.msgs),
              x \in BOOLEAN \X WriteEnvs(TRUE, MsgSize, {"new0", "realloc"})
                    \X Usecs}
  \cup {sd_bus_send_with_reply_cancel(w, key) : key \in 0..MaxMsgs}
  \cup {Outcome2(sd_bus_process(w, i.env, i.rd, i.c)) : i \in ProcessInputs}
  \cup {Res(w, sd_bus_wait(w, ready)) : ready \in {0 - 1, 0, 1}}
  \cup {Outcome2(sd_bus_flush(w, env)) : env \in WriteEnvs(TRUE, MsgSize, {})}
  \cup {Res(w, sd_bus_get_fd(w))}
  \cup {Res(w, sd_bus_get_events(w, b)) : b \in BOOLEAN}
  \cup {Res(w, sd_bus_get_timeout(w, given, 0).r) : given \in BOOLEAN}
  \cup UNION {{sd_bus_add_filter(w, h), sd_bus_remove_filter(w, h)} :
              h \in Handlers}
  \cup UNION {{bus_add_object(w, x[1], x[2], x[3]),
               bus_remove_object(w, x[1], x[2], x[3]),
               sd_bus_add_node_enumerator(w, x[2], x[3]),
               sd_bus_remove_node_enumerator(w, x[2], x[3]),
               sd_bus_add_object_manager(w, x[2]),
               sd_bus_remove_object_manager(w, x[2])} :
              x \in BOOLEAN \X (Paths \cup {BadPath}) \X Handlers}
  \cup UNION {{add_object_vtable_internal(w, x[1], x[2], x[3], x[4]),
               remove_object_vtable_internal(w, x[1], x[2], x[4])} :
              x \in (Paths \cup {BadPath}) \X Interfaces \X (DOMAIN Vtables)
                    \X BOOLEAN}

\* The calls of sd_bus_emit_properties_changed_strv() on connection w.
EmitCalls(w) ==
  {sd_bus_emit_properties_changed_strv(w, x[1], x[2], x[3], x[4], x[5]) :
     x \in (Paths \cup {BadPath}) \X Interfaces \X NameLists
           \X WriteEnvs(TRUE, MsgSize, {"message"}) \X EmitCallbacks}

\* C18 as stated: in a forked child every public call returns -ECHILD and
\* leaves the connection as it is, whatever its state.
C18_ChildIsRefused ==
  bus_pid_changed(World) /\ Callable =>
    \A res \in PublicCalls(World) \cup EmitCalls(World) :
      res = Res(World, 0 - errno.ECHILD)

\* What the code does for a forked child: every public call but
\* sd_bus_emit_properties_changed_strv() fails and leaves the connection as
\* it is, with -ECHILD unless an earlier test of the call answers first;
\* sd_bus_close() does nothing; sd_bus_emit_properties_changed_strv() sends
\* nothing, but it runs, the application's property getter included, until
\* its sd_bus_send() refuses, an assertion fails or the append of the node
\* goes wrong.
C18_ChildChangesNothing ==
  bus_pid_changed(World) /\ Callable =>
    /\ \A res \in PublicCalls(World) :
         /\ res.w = World
         /\ res.r \in {0 - errno.ECHILD, 0 - errno.ENOTCONN, 0 - errno.EPERM,
                       0 - errno.EINVAL}
    /\ sd_bus_close(World) = World
    /\ \A res \in EmitCalls(World) :
         \/ res.w = World /\ res.r < 0
         \/ res.w \in {[World EXCEPT !.pc = "ub"], [World EXCEPT !.pc = "stuck"]}

\* The forked child asks for a PropertiesChanged signal of a path that has
\* no vtable: -ENOENT, from a call that never looked at the pid.
C18_EmitInChild ==
  /\ bus_pid_changed(World) /\ Callable /\ state = "RUNNING"
  /\ sd_bus_emit_properties_changed_strv(
       World, <<"/", "a">>, "I", <<"P">>,
       [room |-> MsgSize, then |-> "eagain", oom |-> "none"],
       [get |-> "ok", append |-> "ok"]) = Res(World, 0 - errno.ENOENT)

(***************************************************************************)
(* Properties of the blocking call (SpecBlock).                            *)
(***************************************************************************)
\* The turn has a slot of rqueue for the message it reads.
HasRoom(i) ==
  cur.room \/ (Len(rqueue) < BUS_RQUEUE_MAX /\ i.env.oom # "realloc")

\* The turn reads a message that does not carry the awaited reply serial.
ReadsOther(i) ==
  HasRoom(i) /\ i.rd.kind = "msg" /\ i.rd.m.reply_serial # cur.serial

\* The call leaves alone what the dispatch of a message changes: no callback
\* of a pending call or of a filter has run or is running, no call has been
\* answered, no message has been dispatched.
NothingDispatched(w) ==
  /\ w.events = events /\ w.pc = pc /\ w.iteration_counter = iteration_counter
  /\ w.reply_callbacks = reply_callbacks
  /\ w.filter_callbacks = filter_callbacks

\* sd_bus_process() gets as far as dispatch_rqueue(): no deadline is due and
\* nothing waits to be written.
ReachesRqueue ==
  /\ Callable /\ state = "RUNNING" /\ ~processing
  /\ reply_callbacks_prioq = {} /\ Len(wqueue) = 0

\* C19: on a running connection the blocking call dispatches nothing, at
\* its entry and in every turn of its loop; a turn that reads a message
\* without the awaited reply serial appends it to rqueue and goes on, every
\* other turn leaves rqueue as it is; a later sd_bus_process() that gets to
\* dispatch_rqueue() takes the head of a non-empty rqueue and dispatches it,
\* whatever the transport has to read, and it dispatches what it reads from
\* the transport only when rqueue is empty.
C19_BlockingQueuesInOrder ==
  /\ Callable /\ state = "RUNNING" =>
       \A m \in Sendable, usec \in Usecs,
          env \in WriteEnvs(TRUE, MsgSize, {"realloc"}) :
         LET res == sd_bus_send_with_reply_and_block(World, m, usec, env)
         IN  NothingDispatched(res.w) /\ res.w.rqueue = rqueue
  /\ cur.inner = "block" =>
       \A i \in BlockInputs :
         LET res == block_loop(World, i.rd, i.failed, i.env)
         IN  /\ NothingDispatched(res.w)
             /\ res.w.rqueue = IF ReadsOther(i) THEN Append(rqueue, i.rd.m)
                                ELSE rqueue
             /\ ReadsOther(i) => res.pending
  /\ ReachesRqueue =>
       \A i \in ProcessInputsOf(PeerMessages) :
         sd_bus_process(World, i.env, i.rd, i.c)
           = IF Len(rqueue) > 0
             THEN Finish(process_message(
                    [World EXCEPT !.processing = TRUE, !.rqueue = Tail(@)],
                    rqueue[1], i.env))
             ELSE IF i.rd.kind = "msg"
             THEN Finish(process_message(
                    [World EXCEPT !.processing = TRUE, !.nread = @ + 1],
                    i.rd.m, i.env))
             ELSE sd_bus_process(World, i.env, i.rd, i.c)

\* A call is in flight and a filter is registered; a blocking call has
\* returned after it read the reply to the other call and then a signal:
\* both wait in rqueue in that order, the call is unanswered and the filter
\* has not run.
C19_Witness ==
  /\ ReachesRqueue /\ cur.inner = "" /\ pc = "idle"
  /\ Len(sendlog) = 2 /\ Len(events.calls) = 1
  /\ events.calls[1].fate = <<"registered">> /\ reply_callbacks # {}
  /\ Len(events.filters) = 1 /\ events.filters[1] = <<>>
  /\ Len(rqueue) = 2
  /\ rqueue[1].type = "METHOD_RETURN"
  /\ rqueue[1].reply_serial = events.calls[1].serial
  /\ rqueue[2].type = "SIGNAL"

\* The turn reads a message that carries the awaited reply serial.
ReadsMatch(i) ==
  HasRoom(i) /\ i.rd.kind = "msg" /\ i.rd.m.reply_serial = cur.serial

\* C20: the blocking call never returns success at its entry, where it
\* takes the serial of the message it sent as the awaited reply serial; a
\* turn of its loop returns 0 only when it read a method return with that
\* reply serial, and then it does; a method error with that reply serial
\* makes it return bus_error_to_errno() of the error, a negative value (or
\* -ENOMEM when the error cannot be copied); any other message with that
\* reply serial makes it return -EIO; and a turn that finds nothing to read
\* after a deadline that has passed returns -ETIMEDOUT, while a call without
\* a deadline never does.
C20_BlockingResult ==
  /\ Callable =>
       \A m \in Sendable, usec \in Usecs,
          env \in WriteEnvs(TRUE, MsgSize, {"realloc"}) :
         LET res == sd_bus_send_with_reply_and_block(World, m, usec, env)
         IN  IF res.pending
             THEN /\ res.w.cur.serial = res.w.msgs[m].serial
                  /\ res.w.cur.serial > 0
                  /\ res.w.cur.timeout = calc_elapse(World, usec)
             ELSE res.r < 0
  /\ cur.inner = "block" =>
       \A i \in BlockInputs :
         LET res == block_loop(World, i.rd, i.failed, i.env)
             r == IF res.pending THEN 1 ELSE res.r
         IN  /\ r = 0 <=> ReadsMatch(i) /\ i.rd.m.type = "METHOD_RETURN"
             /\ ReadsMatch(i) /\ i.rd.m.type = "METHOD_ERROR"
                  => /\ r < 0
                     /\ r = IF i.env.oom = "strdup" THEN 0 - errno.ENOMEM
                            ELSE bus_error_to_errno(i.rd.m.error)
             /\ ReadsMatch(i)
                /\ i.rd.m.type \notin {"METHOD_RETURN", "METHOD_ERROR"}
                  => r = 0 - errno.EIO
             /\ HasRoom(i) /\ i.rd.kind = "none"
                /\ cur.timeout > 0 /\ now >= cur.timeout
                  => r = 0 - errno.ETIMEDOUT
             /\ r = 0 - errno.ETIMEDOUT
                  => i.rd.kind = "none" /\ cur.timeout > 0 /\ now >= cur.timeout

\* A blocking call with a deadline has sent its message and queued a reply
\* to another call; its deadline has passed and the next turn of its loop
\* decides: the reply ends it with 0, an InvalidArgs error with -EINVAL,
\* nothing to read with -ETIMEDOUT.
C20_Witness ==
  /\ cur.inner = "block" /\ state = "RUNNING" /\ cur.serial = 2
  /\ cur.timeout > 0 /\ now >= cur.timeout
  /\ Len(rqueue) = 1 /\ rqueue[1].reply_serial = 1 /\ nread < MaxInbound
  /\ \E i \in BlockInputs :
       /\ i.rd.kind = "msg" /\ i.rd.m.reply_serial = cur.serial
       /\ i.rd.m.error = "org.freedesktop.DBus.Error.InvalidArgs"
       /\ ~block_loop(World, i.rd, i.failed, i.env).pending
       /\ block_loop(World, i.rd, i.failed, i.env).r = 0 - errno.EINVAL

(***************************************************************************)
(* Properties of one dispatch iteration (SpecReply): a deadline against a  *)
(* reply, and what sd_bus_process() returns.                               *)
(***************************************************************************)
\* The callbacks whose deadline has passed, and the replies to a call.
Expired(w) == {c \in w.reply_callbacks_prioq : c.timeout <= w.now}
RepliesTo(c) == {m \in Replies : m.reply_serial = c.serial}

\* The reply m to a call is available to a process call: at the head of
\* rqueue, or on the transport.
Available(m, queued) ==
  [w |-> IF queued THEN [World EXCEPT !.rqueue = <<m>> \o @] ELSE World,
   rd |-> IF queued THEN [kind |-> "none", m |-> NoMsg]
          ELSE [kind |-> "msg", m |-> m]]

\* A process call made while the deadline of c has passed and the reply to c
\* is available: the callback at the head of the timeout queue (c, or one
\* whose deadline is no later) is entered with the Timeout error for its own
\* serial, no callback receives the reply, and the reply stays where it is;
\* when the Timeout error cannot be allocated the call returns -ENOMEM and
\* invokes nothing.
C21_TimeoutFirst ==
  (pc = "idle" /\ state \in {"RUNNING", "HELLO"} /\ ~bus_pid_changed(World)) =>
    \A c \in Expired(World), h \in prioq_peek(reply_callbacks_prioq),
       queued \in BOOLEAN,
       env \in WriteEnvs(TRUE, MsgSize + 1, {"message"}) :
      \A m \in RepliesTo(c) :
        LET a == Available(m, queued)
            res == sd_bus_process(a.w, env, a.rd, h)
        IN  /\ h \in Expired(World) /\ h.timeout <= c.timeout
            /\ res.w.rqueue = a.w.rqueue /\ res.w.nread = nread
            /\ res.w.wire = wire /\ res.w.wqueue = wqueue
            /\ \A id \in Calls \ {h.id} :
                 res.w.events.calls[id] = events.calls[id]
            /\ IF env.oom = "message"
               THEN res = Ret(a.w, 0 - errno.ENOMEM, "timeout")
               ELSE /\ res.w.events.calls[h.id].fate =
                         Append(FateOf(h.id), "timeout")
                    /\ res.w.reply_callbacks = reply_callbacks \ {h}
                    /\ res.w.reply_callbacks_prioq = reply_callbacks_prioq \ {h}
                    /\ \/ /\ res.pending /\ res.w.pc = "timeout_cb"
                          /\ res.w.cur.c = h /\ res.w.cur.m = TimeoutError(h)
                       \/ h.callback = "hello_callback"

\* The reply to a call whose callback was entered with the Timeout error
\* finds no callback: a process call that dispatches it enters none.
C21_LaterReply ==
  (pc = "idle" /\ state \in {"RUNNING", "HELLO"} /\ ~bus_pid_changed(World)
     /\ Expired(World) = {}) =>
    \A id \in Calls, queued \in BOOLEAN,
       h \in IF reply_callbacks_prioq = {} THEN {NoCallback}
             ELSE prioq_peek(reply_callbacks_prioq) :
      (Has(id, {"timeout"}) /\ ~SerialInTable(events.calls[id].serial)) =>
        \A m \in {m \in Replies : m.reply_serial = events.calls[id].serial} :
          LET a == Available(m, queued)
              res == sd_bus_process(a.w, [room |-> 0, then |-> "eagain",
                                          oom |-> "none"], a.rd, h)
          IN  /\ ~res.pending /\ res.r = 1 /\ res.stage = "unhandled"
              /\ res.w.pc = "idle"
              /\ \A k \in Calls :
                   res.w.events.calls[k].fate \in
                     {FateOf(k), Append(FateOf(k), "stray")}

\* C21: a process call made while a pending call's deadline has passed and
\* its reply is available (in rqueue or on the transport) enters a callback
\* with the Timeout error and none with the reply; no step of the program
\* hands a reply to a callback whose deadline has passed; and the reply,
\* dispatched by a later process call, finds no callback for its serial.
C21_TimeoutBeatsReply ==
  /\ [](C21_TimeoutFirst /\ C21_LaterReply)
  /\ [][\A id \in Calls :
          (\E c \in Expired(World) : c.id = id) =>
            \/ FateOf(id)' = FateOf(id)
            \/ FateOf(id)'[Len(FateOf(id)')] # "reply"]_vars
  /\ [](\A id \in Calls :
          \A k \in DOMAIN FateOf(id) :
            FateOf(id)[k] = "timeout" =>
              \A j \in (k + 1)..Len(FateOf(id)) : FateOf(id)[j] = "stray")

\* A call timed out although the peer had answered in time: the process call
\* that found the deadline passed left the reply on the transport, and a
\* later process call read it and found no callback.
C21_Witness ==
  /\ pc = "idle" /\ state = "RUNNING" /\ nread >= 1
  /\ \E id \in Calls : FateOf(id) = <<"registered", "timeout", "stray">>

(***************************************************************************)
(* What sd_bus_process() returns and the progress it made (SpecProgress).  *)
(***************************************************************************)
\* What a call of sd_bus_process() can meet in the present state: the write
\* environment env, the head c of the timeout queue, the read rd of the
\* transport, or the message `queued` at the head of rqueue (a blocking call
\* put it there).
ProcessCases ==
  LET envs == WriteEnvs(Len(wqueue) > 0, MsgSize + 1, {"message"})
      heads == IF reply_callbacks_prioq = {} THEN {NoCallback}
               ELSE prioq_peek(reply_callbacks_prioq)
  IN  [env : envs, c : heads, queued : {NoMsg},
       rd : [kind : {"err", "none", "partial"}, m : {NoMsg}]
            \cup [kind : {"msg"}, m : PeerMessages]]
      \cup [env : envs, c : heads, queued : PeerMessages,
            rd : {[kind |-> "none", m |-> NoMsg]}]

Before(i) ==
  IF i.queued = NoMsg THEN World ELSE [World EXCEPT !.rqueue = <<i.queued>>]
Processed(i) == sd_bus_process(Before(i), i.env, i.rd, i.c)

\* The progress of the call: a deadline was due; the head of wqueue was
\* written to its last byte; a message was read; a message was dispatched.
DeadlineDue(i) == Expired(Before(i)) # {}
FullyWritten(i) ==
  /\ Len(wqueue) > 0
  /\ \E k \in (Len(wire) + 1)..Len(Processed(i).w.wire) :
       /\ Processed(i).w.wire[k].m = wqueue[1]
       /\ Processed(i).w.wire[k].byte = BUS_MESSAGE_SIZE(wqueue[1])
MessageRead(i) == Processed(i).w.nread > nread
WasDispatched(i) == Processed(i).w.iteration_counter > iteration_counter

\* The call failed for want of memory or because the socket failed.
Failed(i, r) ==
  \/ i.env.oom = "message" /\ r = 0 - errno.ENOMEM
  \/ i.env.then = "err" /\ r = 0 - errno.EPIPE
  \/ i.rd.kind = "err" /\ r = 0 - errno.EIO

C22_ZeroMeansNoProgress ==
  pc = "idle" /\ state \in {"RUNNING", "HELLO"} =>
    \A i \in ProcessCases :
      ~Processed(i).pending /\ Processed(i).r = 0 =>
        /\ ~DeadlineDue(i) /\ ~FullyWritten(i) /\ i.queued = NoMsg
        /\ ~MessageRead(i) /\ ~WasDispatched(i)
        /\ Processed(i).w.events = events

C22_ProgressIsReported ==
  pc = "idle" /\ state \in {"RUNNING", "HELLO"} =>
    \A i \in ProcessCases :
      DeadlineDue(i) \/ FullyWritten(i) \/ WasDispatched(i) =>
        \/ Processed(i).pending
        \/ Processed(i).r > 0
        \/ Failed(i, Processed(i).r)

C22_HandlerReturn ==
  pc \in {"timeout_cb", "reply_cb", "filter_cb"} /\ cur.inner = "" =>
    \A rv \in {0 - errno.EIO, 0, 1}, g \in 0..MaxFilters :
      LET res == callback_return(World, rv, g, NoReply)
      IN  res.pending \/ res.r > 0 \/ (rv < 0 /\ res.r = rv)

\* C22: in Running and Hello sd_bus_process() returns 0 only when the call
\* made no progress (no deadline was due, no queued message was written to
\* its end, rqueue was empty, no message was read and none dispatched, no
\* handler was invoked); when a deadline was due, a message was written to
\* its end or a message was dispatched, it returns a positive value or the
\* error the handler returned (or, as every call, the error of an allocation
\* or of the socket that failed).
C22_ZeroIffNoProgress ==
  C22_ZeroMeansNoProgress /\ C22_ProgressIsReported /\ C22_HandlerReturn

\* A part of the queue's head is written and the call returns 0; the rest is
\* written and it returns 1.
C22_Witness ==
  /\ pc = "idle" /\ state = "RUNNING" /\ Len(wqueue) > 0 /\ windex = 0
  /\ reply_callbacks_prioq # {} /\ Expired(World) = {}
  /\ \E i \in ProcessCases :
       /\ Processed(i).r = 0 /\ Processed(i).w.windex = 1
  /\ \E i \in ProcessCases :
       /\ FullyWritten(i) /\ ~MessageRead(i) /\ Processed(i).r = 1

(***************************************************************************)
(* Properties of the dispatch of method calls (SpecDispatch).              *)
(***************************************************************************)
\* The proper prefixes of a path, and the calls that are not for the
\* connection itself.
RECURSIVE ProperPrefixes(_)
ProperPrefixes(p) ==
  IF p = ROOT THEN {} ELSE {NextPrefix(p)} \cup ProperPrefixes(NextPrefix(p))
ObjectCalls == {m \in MethodCalls : m.interface # Peer}

\* Something is registered for the path: at its node a callback, a vtable,
\* an enumerator or an object manager, or at the node of a proper prefix a
\* fallback callback or a fallback vtable.
Registered(path) ==
  \/ /\ path \in DOMAIN nodes
     /\ \/ nodes[path].callbacks # <<>> \/ nodes[path].vtables # <<>>
        \/ nodes[path].enumerators # <<>> \/ nodes[path].object_manager
  \/ \E p \in ProperPrefixes(path) \cap DOMAIN nodes :
       \/ \E k \in DOMAIN nodes[p].callbacks : nodes[p].callbacks[k].is_fallback
       \/ \E k \in DOMAIN nodes[p].vtables : nodes[p].vtables[k].is_fallback

\* The handler of org.freedesktop.DBus.Properties takes the call at the
\* first node the walk visits: GetAll is answered there (with
\* UnknownInterface when no vtable matches), and a Get or Set without its two
\* strings ends the dispatch with the error of sd_bus_message_read().
PropertiesAnswers(m) ==
  /\ m.interface = Properties
  /\ m.member = "GetAll" \/ (m.member \in {"Get", "Set"} /\ ~Carries(m, 2))
  /\ ({m.path} \cup ProperPrefixes(m.path)) \cap DOMAIN nodes # {}

\* Nothing is registered for the call's path and no handler takes the call.
Unclaimed(m) == ~Registered(m.path) /\ ~PropertiesAnswers(m)

\* The call of sd_bus_process(bus, ret) that reads the method call m, and
\* the messages it sends.
Dispatch(m, want, env) ==
  sd_bus_process_ret(World, want, env, [kind |-> "msg", m |-> m], NoCallback)
SentBy(res) ==
  [k \in 1..(Len(res.w.sendlog) - Len(sendlog)) |->
     res.w.msgs[res.w.sendlog[Len(sendlog) + k].m]]
ErrorReply(m, name) ==
  [type |-> "METHOD_ERROR", sealed |-> TRUE, serial |-> serial + 1,
   no_reply_expected |-> TRUE, dont_send |-> FALSE, reply_serial |-> m.serial,
   error |-> name, body |-> <<>>]

\* The allocations succeed and the socket takes the reply.
Sound == [room |-> MsgSize, then |-> "eagain", oom |-> "none", prop |-> "ok"]
\* The tree is built and the peer's call is about to be read.
Serving == pc = "idle" /\ state = "RUNNING" /\ nread = 0 /\ ~processing

\* C23 as stated: a method call nothing is registered for gets exactly one
\* UnknownObject error reply with the call's serial when sd_bus_process() is
\* called without ret; with ret the call is returned and no reply is sent.
C23_AlwaysAnswered ==
  Serving =>
    \A m \in ObjectCalls :
      Unclaimed(m) =>
        /\ Dispatch(m, FALSE, Sound).r = 1
        /\ SentBy(Dispatch(m, FALSE, Sound)) = <<ErrorReply(m, UnknownObject)>>
        /\ Dispatch(m, TRUE, Sound).r = 1
        /\ Dispatch(m, TRUE, Sound).out = m
        /\ SentBy(Dispatch(m, TRUE, Sound)) = <<>>

\* C23: a method call nothing is registered for, dispatched by
\* sd_bus_process() without ret, gets exactly one UnknownObject error reply
\* with the call's serial if it expects a reply, and none if it has
\* NO_REPLY_EXPECTED set (the call returns 1 in both cases); when an
\* allocation or the socket fails no reply is sent and the call returns the
\* error. With ret the call is returned to the caller and no reply is sent.
C23_UnknownObject ==
  Serving =>
    \A m \in ObjectCalls, env \in DispatchEnvs :
      Unclaimed(m) =>
        LET res == Dispatch(m, FALSE, env)
            out == Dispatch(m, TRUE, env)
        IN  /\ ~res.pending /\ ~out.pending
            /\ out.r = 1 /\ out.out = m /\ SentBy(out) = <<>>
            /\ res.out = NoMsg
            /\ IF env.oom = "strdup"
               THEN res.r = 0 - errno.ENOMEM /\ SentBy(res) = <<>>
               ELSE IF m.no_reply_expected
               THEN res.r = 1 /\ SentBy(res) = <<>>
               ELSE IF env = Sound \/ env.oom = "machine_id" \/ env.prop # "ok"
               THEN /\ res.r = 1
                    /\ SentBy(res) = <<ErrorReply(m, UnknownObject)>>
               ELSE res.r < 0 /\ SentBy(res) = <<>>

\* Objects are registered, a call for another path was dispatched and
\* answered with UnknownObject.
C23_Witness ==
  /\ pc = "idle" /\ state = "RUNNING" /\ nread = 1 /\ DOMAIN nodes # {}
  /\ Len(sendlog) = 1 /\ msgs[sendlog[1].m].error = UnknownObject
  /\ msgs[sendlog[1].m].reply_serial = 5
  /\ \E p \in Paths : ~Registered(p)

\* The ends a dispatch can come to from the present state: process_running()
\* reads a method call (the tree is built, the call is about to be read), or
\* the handler the dispatch is suspended in declines the call. The record
\* holds the end before sd_bus_process() clears its locals: res.w.cur.m is
\* the call and res.w.cur.obj.found is found_object.
DispatchEnds(env) ==
  {res \in (IF Serving
            THEN {process_running(
                    [World EXCEPT !.processing = TRUE, !.cur.ret = want], env,
                    [kind |-> "msg", m |-> m], NoCallback) :
                    m \in ObjectCalls, want \in BOOLEAN}
            ELSE IF pc \in {"object_cb", "method_cb"}
            THEN {callback_resume(World, 0, 0, env)}
            ELSE {}) : ~res.pending}
IsGetSet(m) == m.interface = Properties /\ m.member \in {"Get", "Set"}
\* process_object() came to its end with found_object set: no handler took
\* the call.
Declined(res) == res.stage = "object_end"
UnknownObjectSent(res) ==
  \E k \in DOMAIN SentBy(res) : SentBy(res)[k].error = UnknownObject

\* UnknownObject is sent only when found_object stayed false, and
\* found_object is set only for a path something is registered for.
C24_UnknownObjectOnlyUnfound ==
  \A env \in DispatchEnvs :
    \A res \in DispatchEnds(env) :
      /\ UnknownObjectSent(res) => ~res.w.cur.obj.found
      /\ res.stage \in {"unhandled", "returned"} => ~res.w.cur.obj.found
      /\ res.w.cur.obj.found => Registered(res.w.cur.m.path)
      /\ Declined(res) => res.w.cur.obj.found

\* C24 as stated: when a registration was found for the call's path and no
\* handler handled the call, exactly one error reply is sent, UnknownProperty
\* for Properties.Get and Properties.Set and UnknownMethod otherwise.
C24_AlwaysOneError ==
  /\ C24_UnknownObjectOnlyUnfound
  /\ \A res \in DispatchEnds(Sound) :
       Declined(res) =>
         /\ res.r = 1
         /\ SentBy(res)
              = <<ErrorReply(res.w.cur.m,
                             IF IsGetSet(res.w.cur.m) THEN UnknownProperty
                             ELSE UnknownMethod)>>

\* C24: when a registration was found for the call's path (found_object is
\* set) and no handler handled the call, a call that expects a reply gets
\* exactly one error reply, UnknownProperty for Properties.Get and
\* Properties.Set and UnknownMethod otherwise, and a call with
\* NO_REPLY_EXPECTED gets none; sd_bus_process() returns 1 in both cases
\* (when an allocation or the socket fails, nothing is sent and it returns
\* the error). UnknownObject is sent only if found_object stayed false.
C24_UnknownMethodOrProperty ==
  /\ C24_UnknownObjectOnlyUnfound
  /\ \A env \in DispatchEnvs :
       \A res \in DispatchEnds(env) :
         Declined(res) =>
           IF env.oom = "strdup"
           THEN res.r = 0 - errno.ENOMEM /\ SentBy(res) = <<>>
           ELSE IF res.w.cur.m.no_reply_expected
           THEN res.r = 1 /\ SentBy(res) = <<>>
           ELSE IF env = Sound \/ env.oom = "machine_id" \/ env.prop # "ok"
           THEN /\ res.r = 1
                /\ SentBy(res)
                     = <<ErrorReply(res.w.cur.m,
                                    IF IsGetSet(res.w.cur.m)
                                    THEN UnknownProperty ELSE UnknownMethod)>>
           ELSE res.r < 0 /\ SentBy(res) = <<>>

\* A callback of the call's object was called and declined, and the call
\* was answered with UnknownMethod.
C24_Witness ==
  /\ pc = "idle" /\ state = "RUNNING" /\ nread = 1
  /\ Len(events.objects) >= 1
  /\ Len(sendlog) = 1 /\ msgs[sendlog[1].m].error = UnknownMethod
  /\ msgs[sendlog[1].m].reply_serial = 5

\* The path P and its proper prefixes, the longest first: the initial
\* segments of P that end where P ends or before a '/', and "/".
RECURSIVE WalkFrom(_, _)
WalkFrom(P, k) ==
  IF k = 0 THEN <<>>
  ELSE (IF k = Len(P) \/ k = 1 \/ P[k + 1] = "/" THEN <<SubSeq(P, 1, k)>>
        ELSE <<>>) \o WalkFrom(P, k - 1)

\* The handlers registered at the node of p that a call m to the path P may
\* reach: its callbacks in the order of the list, then the method of the
\* vtable registered for the call's interface; at a proper prefix of P the
\* fallbacks among them only.
Reaches(p, m, c) == p = m.path \/ c.is_fallback
HandlersAt(p, m) ==
  IF p \notin DOMAIN nodes THEN <<>>
  ELSE LET cs == SelectSeq(nodes[p].callbacks, LAMBDA c : Reaches(p, m, c))
           vs == SelectSeq(nodes[p].vtables,
                           LAMBDA c : /\ Reaches(p, m, c)
                                      /\ c.interface = m.interface
                                      /\ \E k \in DOMAIN Vtables[c.vtable] :
                                           LET e == Vtables[c.vtable][k]
                                           IN  /\ e.type = "METHOD"
                                               /\ e.member = m.member
                                               /\ e.signature = m.signature)
       IN  [i \in DOMAIN cs |-> [p |-> p, handler |-> cs[i].callback]]
           \o [i \in DOMAIN vs |-> [p |-> p, handler |-> m.member]]

RECURSIVE HandlersAlong(_, _)
HandlersAlong(walk, m) ==
  IF walk = <<>> THEN <<>>
  ELSE HandlersAt(Head(walk), m) \o HandlersAlong(Tail(walk), m)
Expected(m) == HandlersAlong(WalkFrom(m.path, Len(m.path)), m)

\* The handlers object dispatch has called for the message, in order.
CalledIn(w) ==
  [i \in DOMAIN w.events.objects |->
     [p |-> w.events.objects[i].p, handler |-> w.events.objects[i].handler]]
IsPrefix(s, t) == Len(s) <= Len(t) /\ s = SubSeq(t, 1, Len(s))

\* C25: for a method call to the path P object dispatch calls the handlers
\* registered at P (fallback or not), then the fallback handlers at the
\* proper prefixes of P, the longest prefix first and "/" last: the handlers
\* called so far are the first of that list, each was called with the
\* message's path P, none at a proper prefix is a non-fallback callback, and
\* when every handler has declined all of the list were called.
C25_WalkOrder ==
  /\ pc \in {"object_cb", "method_cb"} =>
       /\ Len(events.objects) >= 1
       /\ IsPrefix(CalledIn(World), Expected(cur.m))
       /\ \A i \in DOMAIN events.objects :
            /\ events.objects[i].path = cur.m.path
            /\ events.objects[i].iteration = iteration_counter
            /\ events.objects[i].p # cur.m.path =>
                 events.objects[i].handler # "f"
       /\ \A i, j \in DOMAIN events.objects :
            i < j => Len(events.objects[i].p) >= Len(events.objects[j].p)
  /\ \A env \in DispatchEnvs :
       \A res \in DispatchEnds(env) :
         /\ IsPrefix(CalledIn(res.w), Expected(res.w.cur.m))
         /\ res.stage \in {"object_end", "unhandled", "returned"} =>
              CalledIn(res.w) = Expected(res.w.cur.m)

\* A call to /a/b has reached the fallback callback of "/" after the callback
\* of /a/b declined it, past the callback of the object /a.
C25_Witness ==
  /\ pc = "object_cb" /\ cur.m.path = <<"/", "a", "/", "b">>
  /\ CalledIn(World) = << [p |-> <<"/", "a", "/", "b">>, handler |-> "f"],
                         [p |-> ROOT, handler |-> "g"] >>
  /\ <<"/", "a">> \in DOMAIN nodes
  /\ \E k \in DOMAIN nodes[<<"/", "a">>].callbacks :
       ~nodes[<<"/", "a">>].callbacks[k].is_fallback

(***************************************************************************)
(* The errors of sd_bus_emit_properties_changed_strv() (SpecEmit).         *)
(***************************************************************************)
\* A vtable for the interface applies at the node of p: a vtable of the
\* path's own node, a fallback vtable of a prefix's.
AppliesAt(p, path, interface) ==
  /\ p \in DOMAIN nodes
  /\ \E k \in DOMAIN nodes[p].vtables :
       /\ nodes[p].vtables[k].interface = interface
       /\ p = path \/ nodes[p].vtables[k].is_fallback
\* The vtable that owns the interface of path: the one at the first node of
\* the walk where one applies.
Owners(path, interface) ==
  LET walk == WalkFrom(path, Len(path))
      at == {i \in DOMAIN walk : AppliesAt(walk[i], path, interface)}
      p == walk[CHOOSE i \in at : \A j \in at : i <= j]
  IN  IF at = {} THEN {}
      ELSE {nodes[p].vtables[k] : k \in
              {k \in DOMAIN nodes[p].vtables :
                 /\ nodes[p].vtables[k].interface = interface
                 /\ p = path \/ nodes[p].vtables[k].is_fallback}}
PropertyOf(c, name) ==
  {e \in {Vtables[c.vtable][k] : k \in DOMAIN Vtables[c.vtable]} :
     e.type \in {"PROPERTY", "WRITABLE_PROPERTY"} /\ e.member = name}
\* The name is no property of the vtable, or one that does not emit changes.
Refused(c, name) ==
  \/ PropertyOf(c, name) = {}
  \/ \E e \in PropertyOf(c, name) : "EMITS_CHANGE" \notin e.flags
\* The error the claim gives for the first name that is refused.
RefusalOf(c, names) ==
  LET k == CHOOSE k \in DOMAIN names :
             Refused(c, names[k]) /\ \A j \in 1..(k - 1) : ~Refused(c, names[j])
  IN  IF PropertyOf(c, names[k]) = {} THEN 0 - errno.ENOENT
      ELSE 0 - errno.EDOM

\* The socket takes the signal, the allocations succeed, the getter returns
\* the value and the append of line 4045 goes well.
Emitting ==
  [tx |-> [room |-> MsgSize, then |-> "eagain", oom |-> "none"],
   cb |-> [get |-> "ok", append |-> "ok"]]

\* C26: sd_bus_emit_properties_changed_strv() returns -ENOENT when no vtable
\* for the interface applies at the path or as a fallback at a prefix,
\* -ENOENT when a name is no property of the owning vtable and -EDOM when the
\* property lacks EMITS_CHANGE; in each of these cases no signal is sent and
\* the connection is as before.
C26_EmitErrors ==
  Callable =>
    \A path \in Paths, interface \in Interfaces, names \in NameLists :
      LET res == sd_bus_emit_properties_changed_strv(
                   World, path, interface, names, Emitting.tx, Emitting.cb)
          owners == Owners(path, interface)
      IN  /\ owners = {} => res = Res(World, 0 - errno.ENOENT)
          /\ \A c \in owners :
               (\E k \in DOMAIN names : Refused(c, names[k])) =>
                 res = Res(World, RefusalOf(c, names))

\* What holds of it: when the vtables of the nodes on the walk are all for
\* the interface asked for, the errors are as C26 says.
C26_OneInterface ==
  Callable =>
    \A path \in Paths, interface \in Interfaces, names \in NameLists :
      (\A p \in DOMAIN nodes : \A k \in DOMAIN nodes[p].vtables :
         nodes[p].vtables[k].interface = interface) =>
        LET res == sd_bus_emit_properties_changed_strv(
                     World, path, interface, names, Emitting.tx, Emitting.cb)
            owners == Owners(path, interface)
        IN  /\ owners = {} => res = Res(World, 0 - errno.ENOENT)
            /\ \A c \in owners :
                 (\E k \in DOMAIN names : Refused(c, names[k])) =>
                   res = Res(World, RefusalOf(c, names))

(***************************************************************************)
(* The built-in org.freedesktop.DBus.Peer interface (SpecDispatch).        *)
(***************************************************************************)
PeerCalls == {m \in MethodCalls : m.interface = Peer}
\* The reply process_builtin() sends to the call m.
PeerReply(m) ==
  [type |-> IF m.member \in {"Ping", "GetMachineId"}
            THEN "METHOD_RETURN" ELSE "METHOD_ERROR",
   sealed |-> TRUE, serial |-> serial + 1,
   no_reply_expected |-> TRUE, dont_send |-> FALSE, reply_serial |-> m.serial,
   error |-> IF m.member \in {"Ping", "GetMachineId"} THEN ""
             ELSE UnknownMethod,
   body |-> IF m.member = "GetMachineId" THEN <<MachineId>> ELSE <<>>]
\* The machine id is read, the reply is allocated and the socket takes it.
PeerAnswered(m, env) ==
  /\ env.oom # "message"
  /\ env.oom = "machine_id" => m.member # "GetMachineId"
  /\ env.room >= MsgSize

\* C27: a method call on org.freedesktop.DBus.Peer that process_builtin()
\* gets is consumed there: no object handler is called, the call is not
\* returned to the caller of sd_bus_process() and no object error is sent.
\* Ping is answered with an empty method return with the call's serial as
\* reply serial, GetMachineId with a return that carries the machine id, any
\* other member with an UnknownMethod error, and a call with
\* NO_REPLY_EXPECTED with nothing; sd_bus_process() returns 1. When the
\* machine id cannot be read, the reply cannot be allocated or the socket
\* fails, nothing is sent and sd_bus_process() returns the error.
C27_PeerIsBuiltin ==
  Serving =>
    \A m \in PeerCalls, want \in BOOLEAN, env \in DispatchEnvs :
      LET res == Dispatch(m, want, env)
      IN  /\ ~res.pending
          /\ res.stage = "builtin"
          /\ res.out = NoMsg
          /\ res.w.events.objects = <<>>
          /\ IF m.no_reply_expected
             THEN res.r = 1 /\ SentBy(res) = <<>>
             ELSE IF PeerAnswered(m, env)
             THEN res.r = 1 /\ SentBy(res) = <<PeerReply(m)>>
             ELSE res.r < 0 /\ SentBy(res) = <<>>

\* A fallback callback at "/" would get every call; a GetMachineId call was
\* read and answered with the machine id, and no object handler was called.
C27_Witness ==
  /\ pc = "idle" /\ state = "RUNNING" /\ nread = 1
  /\ <<"/">> \in DOMAIN nodes
  /\ \E k \in DOMAIN nodes[<<"/">>].callbacks :
       nodes[<<"/">>].callbacks[k].is_fallback
  /\ events.objects = <<>>
  /\ Len(sendlog) = 1 /\ msgs[sendlog[1].m].type = "METHOD_RETURN"
  /\ msgs[sendlog[1].m].body = <<MachineId>>
  /\ msgs[sendlog[1].m].reply_serial = 5

(***************************************************************************)
(* sd_bus_get_events() (SpecStart, SpecBlock).                             *)
(***************************************************************************)
\* The poll events in the value e.
WantsIn(e) == e \in {POLLIN, POLLIN + POLLOUT}
WantsOut(e) == e \in {POLLOUT, POLLIN + POLLOUT}
\* The events the claim gives for the connection's state; needs_write is
\* what bus_socket_auth_needs_write() answers.
EventsIn ==
  \/ state = "AUTHENTICATING"
  \/ state \in {"RUNNING", "HELLO"} /\ Len(rqueue) = 0
EventsOut(needs_write) ==
  \/ state = "OPENING"
  \/ state = "AUTHENTICATING" /\ needs_write
  \/ state \in {"RUNNING", "HELLO"} /\ Len(wqueue) > 0
EventsAsDerived(e, needs_write) ==
  /\ e \in {0, POLLIN, POLLOUT, POLLIN + POLLOUT}
  /\ WantsIn(e) <=> EventsIn
  /\ WantsOut(e) <=> EventsOut(needs_write)

\* C28 as stated: the events are those of the table, and 0 in the states
\* Unset and Closed.
C28_ZeroElsewhere ==
  (Callable /\ ~bus_pid_changed(World)) =>
    \A needs_write \in BOOLEAN :
      EventsAsDerived(sd_bus_get_events(World, needs_write), needs_write)

\* C28: in the process that made the connection sd_bus_get_events() returns
\* POLLOUT in Opening; POLLIN, and POLLOUT with it iff the authentication
\* needs to write, in Authenticating; POLLIN iff rqueue is empty and POLLOUT
\* iff wqueue is not, in Running and Hello; and -ENOTCONN in Unset and
\* Closed.
C28_Events ==
  (Callable /\ ~bus_pid_changed(World)) =>
    \A needs_write \in BOOLEAN :
      IF state \in {"UNSET", "CLOSED"}
      THEN sd_bus_get_events(World, needs_write) = 0 - errno.ENOTCONN
      ELSE EventsAsDerived(sd_bus_get_events(World, needs_write), needs_write)

\* The Hello call waits in wqueue and nothing was read: both events.
C28_Witness ==
  /\ state = "HELLO" /\ Len(wqueue) > 0 /\ Len(rqueue) = 0
  /\ ~bus_pid_changed(World)
  /\ sd_bus_get_events(World, FALSE) = POLLIN + POLLOUT

(***************************************************************************)
(* The serial of a sealed message when the counter wraps (SpecWrap).       *)
(***************************************************************************)
\* C29: no message is sealed with serial 0, also when the connection's
\* serial counter wraps around.
C29_SerialNeverZero ==
  \A m \in DOMAIN msgs : msgs[m].sealed => msgs[m].serial # 0

\* The consequence for a call sealed with serial 0: its callback is
\* registered under 0 and sd_bus_send_with_reply_cancel() refuses that
\* serial, so the call cannot be cancelled.
C29_ZeroIsPending ==
  /\ \E c \in reply_callbacks : c.serial = 0
  /\ sd_bus_send_with_reply_cancel(World, 0) = Res(World, 0 - errno.EINVAL)

(***************************************************************************)
(* The messages a connection accepts while it waits for the reply to       *)
(* Hello (SpecHello).                                                      *)
(***************************************************************************)
IsHelloReply(m) ==
  m.type \in {"METHOD_RETURN", "METHOD_ERROR"} /\ m.reply_serial = hello_serial
\* No deadline is due and nothing waits to be written or dispatched, so
\* that sd_bus_process() reads.
ReadsNow(c) ==
  /\ Len(wqueue) = 0 /\ Len(rqueue) = 0
  /\ c = NoCallback \/ c.timeout = 0 \/ c.timeout > now

\* C30: in the state Hello, a message sd_bus_process() reads that is not a
\* method return or method error with reply serial hello_serial makes the
\* call fail with -EIO in process_hello(): no callback is called, no reply
\* is sent, and nothing of the connection changes but the count of
\* iterations and of the messages read (and the bytes of the head of wqueue
\* that dispatch_wqueue() wrote before the read).
C30_HelloFirst ==
  (Callable /\ pc = "idle" /\ state = "HELLO") =>
    \A m \in HelloInbound, want \in BOOLEAN,
       env \in WriteEnvs(Len(wqueue) > 0, MsgSize, {}),
       c \in IF reply_callbacks_prioq = {} THEN {NoCallback}
             ELSE prioq_peek(reply_callbacks_prioq) :
      ~IsHelloReply(m) =>
        LET res == sd_bus_process_ret(
                     World, want, env,
                     [kind |-> "msg", m |-> m, tr |-> <<>>], c)
        IN  /\ ReadsNow(c) => res.w.nread = nread + 1
            /\ res.w.nread # nread =>
                 /\ ~res.pending
                 /\ res.r = 0 - errno.EIO
                 /\ res.stage = "hello"
                 /\ res.out = NoMsg
                 /\ res.w = [World EXCEPT !.nread = @ + 1,
                                          !.iteration_counter = @ + 1,
                                          !.windex = res.w.windex,
                                          !.wire = res.w.wire]

\* The reply to Hello is awaited, a filter is registered; a message was read
\* that is not the reply and the filter was not called.
C30_Witness ==
  /\ pc = "idle" /\ state = "HELLO" /\ nread >= 1
  /\ \E c \in reply_callbacks : c.serial = hello_serial
  /\ Len(filter_callbacks) = 1
  /\ events.filters = << <<>> >>

(***************************************************************************)
(* A running connection with calls in flight, a filter and object          *)
(* callbacks, whose peer sends replies, signals and method calls.          *)
(***************************************************************************)
\* What the peer sends: replies, signals, and calls of a method of the
\* program and of org.freedesktop.DBus.Peer to the root object.
ChainInbound ==
  PeerMessages
  \cup {m \in CallsOf("I", {"M"}, {""}, {<<>>})
               \cup CallsOf(Peer, {"Ping"}, {""}, {<<>>}) : m.path = ROOT}
ProcessChain ==
  /\ Callable
  /\ \E env \in DispatchEnvs, rd \in Reads(ChainInbound) :
       Becomes(sd_bus_process(World, env, rd, NoCallback).w)
\* sd_bus_send_with_reply() with no deadline, before the program processes.
CallForReply ==
  /\ pc = "idle" /\ nread = 0 /\ Len(events.calls) < MaxCalls
  /\ \E m \in {m \in Sendable : ~msgs[m].sealed}, env \in Unblocked({}) :
       Becomes(sd_bus_send_with_reply(World, m, "callback", Infinite, TRUE,
                                      env).w)
\* The program registers callbacks for the root object.
RegisterRoot ==
  /\ pc = "idle" /\ nread = 0 /\ TreeRoom(ROOT)
  /\ \E fb \in BOOLEAN :
       TreeCall(IF fb THEN "add_fallback" ELSE "add_object",
                bus_add_object(World, fb, ROOT, IF fb THEN "g" ELSE "f"))
NextChain ==
  \/ CallForReply \/ AddFirstFilter \/ RegisterRoot \/ ProcessChain
  \/ CallbackReturn
SpecChain == InitReply /\ [][NextChain]_vars

(***************************************************************************)
(* C31: the handler chain of process_message() (SpecChain).                *)
(***************************************************************************)
\* The first handler of the chain, from the handler `from` on (1: the reply
\* callback, 2: the filters, 3: the Peer interface), that has something to
\* do with the message m; the objects come last.
HasReplyCallback(w, m) ==
  /\ m.type \in {"METHOD_RETURN", "METHOD_ERROR"}
  /\ reply_callbacks_get(w, m.reply_serial) # {}
FilterDue(w) ==
  \E k \in DOMAIN w.filter_callbacks :
    w.filter_callbacks[k].last_iteration # w.iteration_counter
IsPeerCall(m) == m.type = "METHOD_CALL" /\ m.interface = Peer
HandlerFrom(w, m, from, due) ==
  IF from <= 1 /\ HasReplyCallback(w, m) THEN "reply"
  ELSE IF from <= 2 /\ due THEN "filter"
  ELSE IF IsPeerCall(m) THEN "builtin"
  ELSE "object"
\* The handler the iteration res is in, or returned from.
HandlerOf(res) ==
  IF res.w.pc = "reply_cb" THEN "reply"
  ELSE IF res.w.pc = "filter_cb" THEN "filter"
  ELSE IF res.w.pc \in {"object_cb", "method_cb"} THEN "object"
  ELSE IF res.stage \in {"hello", "reply", "filter", "match", "builtin"}
  THEN res.stage
  ELSE "object"
\* The callbacks the iteration res entered that w had not entered.
NewFilterCalls(w, res) == res.w.events.filters # w.events.filters
NewObjectCalls(w, res) ==
  Len(res.w.events.objects) > (IF w.pc = "idle" THEN 0
                               ELSE Len(w.events.objects))
\* The iteration res goes on from w with the handler h and with none after it.
GoesOnWith(w, res, h) ==
  /\ HandlerOf(res) = h
  /\ h = "reply" => ~NewFilterCalls(w, res)
  /\ h \in {"reply", "filter", "builtin"} => ~NewObjectCalls(w, res)
  /\ h = "builtin" => ~res.pending /\ res.r # 0
\* The iteration res ended in w with the value rv and called nothing more.
EndsWith(w, res, rv) ==
  /\ ~res.pending /\ res.r = rv /\ res.w.pc = "idle"
  /\ res.w.events = w.events /\ res.w.wqueue = w.wqueue
  /\ res.w.wire = w.wire

node_callback_moved(w, w2) ==
  LET p == w.cur.obj.p
      k == w.cur.obj.k
      was == w.nodes[p].callbacks
  IN  IF k = 0 \/ p \notin DOMAIN w2.nodes THEN 0
      ELSE IF Len(w2.nodes[p].callbacks) > Len(was) THEN k + 1
      ELSE IF Len(w2.nodes[p].callbacks) = Len(was) THEN k
      ELSE LET j == CHOOSE j \in 1..Len(was) :
                      /\ w2.nodes[p].callbacks = LIST_REMOVE(was, j)
                      /\ \A i \in 1..(j - 1) :
                           w2.nodes[p].callbacks # LIST_REMOVE(was, i)
           IN  IF j < k THEN k - 1 ELSE IF j = k THEN 0 ELSE k
InCallback(w2) ==
  Becomes([w2 EXCEPT !.cur.obj.k = node_callback_moved(World, w2)])

\* The peer calls a method of the program's objects.
PathCalls == {m \in CallsOf("I", {"M"}, {""}, {<<>>}) : ~m.no_reply_expected}
ProcessPathCalls ==
  /\ Callable
  /\ \E env \in {e \in DispatchEnvs : e.oom = "none" /\ e.prop = "ok"},
        rd \in Reads(IF nread < MaxDispatch THEN PathCalls ELSE {}) :
       Becomes(sd_bus_process(World, env, rd, NoCallback).w)
\* An object callback calls sd_bus_add_object() or sd_bus_add_fallback().
HandlerAdds ==
  /\ pc = "object_cb"
  /\ \E path \in Paths, fb \in BOOLEAN :
       /\ TreeRoom(path)
       /\ InCallback(bus_add_object(World, fb, path,
                                    IF fb THEN "g" ELSE "f").w)
\* An object callback calls sd_bus_remove_object() or
\* sd_bus_remove_fallback().
HandlerRemoves ==
  /\ pc = "object_cb"
  /\ \E path \in Paths, fb \in BOOLEAN :
       InCallback(bus_remove_object(World, fb, path,
                                    IF fb THEN "g" ELSE "f").w)
NextMutate ==
  \/ RegisterObject \/ ProcessPathCalls \/ HandlerAdds \/ HandlerRemoves
  \/ CallbackReturn
SpecMutate == InitReply /\ [][NextMutate]_vars

(***************************************************************************)
(* C32: the tree changes during object dispatch (SpecMutate).              *)
(***************************************************************************)
\* Every callback registered for the path of the call has been called in
\* this iteration.
ExactPathCalled ==
  cur.m.path \in DOMAIN nodes =>
    \A k \in DOMAIN nodes[cur.m.path].callbacks :
      \E i \in DOMAIN events.objects :
        /\ events.objects[i].p = cur.m.path
        /\ events.objects[i].handler = nodes[cur.m.path].callbacks[k].callback
\* The walk goes on to a callback of a proper prefix of the call's path.
EntersPrefix ==
  /\ pc' = "object_cb" /\ events'.objects # events.objects
  /\ cur'.obj.p # cur'.m.path

\* C32: object dispatch never goes on from a registration its handler
\* removed, and after a handler changed the tree the walk starts again at the
\* call's path: no callback of a prefix is entered while a callback
\* registered for the call's path has not been called.
C32_RestartsOnMutation ==
  [][/\ pc' # "ub"
     /\ EntersPrefix => ExactPathCalled']_vars

\* The two halves of C32.
C32_NoFreedRegistration == pc # "ub"
C32_RestartsAtPath == [][EntersPrefix => ExactPathCalled']_vars

(***************************************************************************)
(* C33: the parents of the nodes (SpecTree).                               *)
(***************************************************************************)
\* C33: every node other than "/" has as its parent the node of its path
\* without the last component, and that node is in bus->nodes: every
\* ancestor of a registered path is present.
C33_AncestorsPresent ==
  \A p \in DOMAIN nodes :
    p # ROOT => /\ nodes[p].parent = NextPrefix(p)
                /\ NextPrefix(p) \in DOMAIN nodes

\* What holds instead: the parent of every node other than "/" is "/".
C33_RootIsParent ==
  \A p \in DOMAIN nodes :
    p # ROOT => nodes[p].parent = ROOT /\ ROOT \in DOMAIN nodes

(***************************************************************************)
(* C34: removing a vtable (SpecTree).                                      *)
(***************************************************************************)
\* The entries of the indexes that belong to the vtable c of the node path.
MembersOf(w, path, c) ==
  {x \in w.vtable_methods \cup w.vtable_properties :
     x.key.path = path /\ x.parent = c}

\* C34: sd_bus_remove_object_vtable() and sd_bus_remove_fallback_vtable() of
\* a registered (path, interface) return 1, and then vtable_methods and
\* vtable_properties hold no member of that vtable and every entry of the
\* other vtables.
C34_RemoveEmptiesIndexes ==
  Callable =>
    \A path \in DOMAIN nodes : \A k \in DOMAIN nodes[path].vtables :
      LET c == nodes[path].vtables[k]
          res == remove_object_vtable_internal(World, path, c.interface,
                                               c.is_fallback)
      IN  /\ res.w.pc # "stuck" /\ res.r = 1
          /\ MembersOf(res.w, path, c) = {}
          /\ res.w.vtable_methods = vtable_methods \ MembersOf(World, path, c)
          /\ res.w.vtable_properties =
               vtable_properties \ MembersOf(World, path, c)

\* What holds instead: the call unlinks the vtable from its node, leaves the
\* indexes as they are and does not return.
C34_RemoveNeverReturns ==
  Callable =>
    \A path \in DOMAIN nodes : \A k \in DOMAIN nodes[path].vtables :
      LET c == nodes[path].vtables[k]
          res == remove_object_vtable_internal(World, path, c.interface,
                                               c.is_fallback)
      IN  /\ res.w.pc = "stuck"
          /\ res.w.vtable_methods = vtable_methods
          /\ res.w.vtable_properties = vtable_properties
          /\ \A j \in DOMAIN res.w.nodes[path].vtables :
               res.w.nodes[path].vtables[j] # c

(***************************************************************************)
(* C35: the timeout queue and the reply table (SpecReply).                 *)
(***************************************************************************)
\* C35: reply_callbacks_prioq holds exactly the reply_callback structs of
\* reply_callbacks that have a deadline (timeout # 0).
C35_PrioqIsDeadlines ==
  reply_callbacks_prioq = {c \in reply_callbacks : c.timeout # 0}

\* A call without a deadline is pending, so that the queue is smaller than
\* the table, after a call with a deadline timed out and left both.
C35_Witness ==
  /\ \E c \in reply_callbacks : c.timeout = 0
  /\ reply_callbacks_prioq # reply_callbacks
  /\ \E id \in DOMAIN events.calls : Has(id, {"timeout"})

(***************************************************************************)
(* C36: the state hello_callback() runs in (SpecStart).                    *)
(***************************************************************************)
\* hello_callback() was entered in a state other than Hello and its
\* assertion has aborted the program.
HelloAsserted == pc = "stuck" /\ cur.c.callback = "hello_callback"

\* C36: hello_callback() is entered in the state Hello only, so that its
\* assertion of the state holds.
C36_HelloOnlyInHello == ~HelloAsserted

\* The connection runs over the kernel transport while the Hello call it sent
\* over a socket address is pending: when the deadline of the call passes,
\* process_timeout() enters hello_callback() in the state Running.
C36_DeadlineInRunning ==
  /\ state = "RUNNING" /\ is_kernel /\ pc = "idle"
  /\ \E c \in reply_callbacks_prioq :
       /\ c.callback = "hello_callback"
       /\ sd_bus_process([World EXCEPT !.now = c.timeout], NoReply,
                         [kind |-> "none", m |-> NoMsg, tr |-> <<>>],
                         c).w.pc = "stuck"

(***************************************************************************)
(* C37: a registration of a vtable that fails (SpecTree).                  *)
(***************************************************************************)
\* The node of path has a vtable for the interface or one with the other
\* fallback flag.
VtableClash(path, interface, fb) ==
  /\ path \in DOMAIN nodes
  /\ \E k \in DOMAIN nodes[path].vtables :
       \/ nodes[path].vtables[k].interface = interface
       \/ nodes[path].vtables[k].is_fallback # fb
\* An entry of the vtable fails its checks.
VtableInvalid(vt) ==
  \E k \in 2..Len(Vtables[vt]) :
    /\ Vtables[vt][k].type \in {"METHOD", "PROPERTY", "WRITABLE_PROPERTY",
                                "SIGNAL"}
    /\ ~Vtables[vt][k].ok

\* C37: sd_bus_add_object_vtable() and sd_bus_add_fallback_vtable() of a
\* duplicate interface, of the other fallback flag or of a vtable with an
\* invalid entry return an error and leave nodes, the node's vtables,
\* vtable_methods and vtable_properties as they were.
C37_FailedAddChangesNothing ==
  \A path \in Paths, interface \in Interfaces, vt \in DOMAIN Vtables,
     fb \in BOOLEAN :
    (Callable /\ (VtableClash(path, interface, fb) \/ VtableInvalid(vt))) =>
      /\ add_object_vtable_internal(World, path, interface, vt, fb).r < 0
      /\ add_object_vtable_internal(World, path, interface, vt, fb).w = World

\* What holds instead: the call of a duplicate interface or of the other
\* fallback flag changes nothing and returns 0; the call of a vtable with an
\* invalid entry does not return, with the node allocated and the members
\* before the invalid entry in the indexes.
C37_FailedAddAsItIs ==
  \A path \in Paths, interface \in Interfaces, vt \in DOMAIN Vtables,
     fb \in BOOLEAN :
    LET res == add_object_vtable_internal(World, path, interface, vt, fb)
    IN  /\ (Callable /\ VtableClash(path, interface, fb)) =>
             res.r = 0 /\ res.w = World
        /\ (Callable /\ ~VtableClash(path, interface, fb)
              /\ VtableInvalid(vt)) =>
             /\ res.w.pc = "stuck" /\ path \in DOMAIN res.w.nodes
             /\ \E x \in res.w.vtable_methods \ vtable_methods :
                  x.key.path = path /\ x.key.interface = interface

(***************************************************************************)
(* C38: sd_bus_start() after a start that was rejected (SpecStart).        *)
(***************************************************************************)
\* The configuration sd_bus_start() rejects with -EINVAL: server and
\* bus_client both set, or nothing to connect to.
Misconfigured ==
  \/ conf.is_server /\ conf.bus_client
  \/ ~(\/ conf.input_fd >= 0 \/ conf.address # NullAddress
       \/ conf.sockaddr \/ conf.exec_path \/ conf.kernel)
StartEnv == [room |-> 0, then |-> "eagain", oom |-> "none"]

\* C38: after sd_bus_start() rejected the configuration with -EINVAL (in the
\* process that created the connection) the state is Unset: the setters are
\* accepted and sd_bus_start() can be called again.
C38_RejectedStartCanBeRetried ==
  (state = "UNSET" /\ Misconfigured /\ ~bus_pid_changed(World)) =>
    \A tr \in Transports :
      /\ sd_bus_start(World, tr, StartEnv).r = 0 - errno.EINVAL
      /\ sd_bus_start(World, tr, StartEnv).w.state = "UNSET"
      /\ sd_bus_set_bus_client(sd_bus_start(World, tr, StartEnv).w, FALSE).r
           = 0
      /\ sd_bus_start(sd_bus_start(World, tr, StartEnv).w, tr, StartEnv).r
           # 0 - errno.EPERM

\* What holds instead: the rejected call leaves the state Opening, in which
\* the setters and a second sd_bus_start() return -EPERM.
C38_RejectedStartOpens ==
  (state = "UNSET" /\ Misconfigured /\ ~bus_pid_changed(World)) =>
    \A tr \in Transports :
      /\ sd_bus_start(World, tr, StartEnv).r = 0 - errno.EINVAL
      /\ sd_bus_start(World, tr, StartEnv).w = [World EXCEPT !.state = "OPENING"]
      /\ sd_bus_set_bus_client(sd_bus_start(World, tr, StartEnv).w, FALSE).r
           = 0 - errno.EPERM
      /\ sd_bus_start(sd_bus_start(World, tr, StartEnv).w, tr, StartEnv).r
           = 0 - errno.EPERM

(***************************************************************************)
(* C39: filters removed during the walk of process_filter() (SpecFilter).  *)
(***************************************************************************)
\* The filter whose callback runs is still in the list.
RunningFilterLinked == FilterIndex(World, cur.l) # 0

\* C39: when a filter's callback has removed a filter and returns 0, the walk
\* reads no field of the struct that was removed, its callbacks_next
\* included, before it starts over from the head of the list.
C39_NoReadOfRemoved ==
  pc = "filter_cb" =>
    \A g \in 0..MaxFilters : ~callbacks_next(World, cur.l, g).freed

\* What holds instead: when the callback removed another filter than its own,
\* the walk reads callbacks_next of its own struct, which is in the list, and
\* starts over; when it removed its own, the walk reads callbacks_next of the
\* freed struct and starts over whatever the value is.
C39_ReadsOwnLinkOnly ==
  (pc = "filter_cb" /\ filter_callbacks_modified) =>
    /\ RunningFilterLinked =>
         \A g \in 0..MaxFilters : ~callbacks_next(World, cur.l, g).freed
    /\ \A g, h \in 0..MaxFilters :
         /\ callback_return(World, 0, g, NoReply)
              = callback_return(World, 0, h, NoReply)
         /\ callback_return(World, 0, g, NoReply).w.pc # "ub"

(***************************************************************************)
(* The write index of a socket connection (SpecSend).                      *)
(***************************************************************************)
\* The bytes on the wire that belong to a message not yet written completely.
PartOnWire == Len(wire) % MsgSize

\* C40: on a socket connection windex is 0 whenever the write queue is empty
\* and less than the size of wqueue[0] whenever it is not; the only message
\* with a part of its bytes on the wire is the head of the queue, and windex
\* is the number of these bytes.
C40_WindexInHead ==
  ~is_kernel =>
    /\ windex >= 0
    /\ Len(wqueue) = 0 => windex = 0
    /\ Len(wqueue) > 0 => windex < BUS_MESSAGE_SIZE(wqueue[1])
    /\ PartOnWire = windex
    /\ PartOnWire > 0 => /\ Len(wqueue) > 0
                         /\ wire[Len(wire)].m = wqueue[1]
                         /\ \A k \in 1..PartOnWire :
                              wire[Len(wire) - PartOnWire + k].byte = k

\* A socket wrote the first message, took a part of the second, which now
\* heads the queue alone, and the queue was empty before.
C40_Witness ==
  /\ ~is_kernel /\ state = "RUNNING"
  /\ Len(wqueue) = 1 /\ windex > 0 /\ windex < BUS_MESSAGE_SIZE(wqueue[1])
  /\ Len(wire) = MsgSize + windex

====
